---- MODULE Spec2Model ----
(***************************************************************************)
(* A model of pmk_arena.h (the chained bump allocator) and of pmk_string.h *)
(* (the String views, string_parse_int and the StringBuilder, with realloc *)
(* or the arena as its reallocation hook), over one byte-addressed memory  *)
(* of blocks handed out by the system allocator.                           *)
(***************************************************************************)
EXTENDS Integers, Sequences, FiniteSets, TLC

(***************************************************************************)
(* Program constants                                                       *)
(***************************************************************************)
ALIGNMENT == 8
SIZEOF_SIZE_T == 8
DEFAULT_ARENA_CAP == 16

(***************************************************************************)
(* Bounds of the model                                                     *)
(***************************************************************************)
\* blocks the system allocator hands out in one run of the arena model
MaxBlocks == 6
\* calls of arena_create and arena_realloc_into in one run of the arena model
MaxCalls == 3

\* sizes requested from arena_realloc_into; size + SIZEOF_SIZE_T never wraps
ReqSizes == {0, 1, 9}
\* capacities passed to arena_create by the caller
CreateCaps == {0, 4, 20}
ArenaIds == {1, 2}

\* builder calls in one run of the builder model
MaxOps == 2
\* builder calls in one run of the two builds
MaxHookOps == 3

\* the String arguments and formatted texts: "", "a", "bab"
Strs == {<<>>, <<97>>, <<98, 97, 98>>}
\* the start and end arguments of splice
Idx == {0 - 1, 0, 1, 2}
\* the capacities passed to builder_reserve
ReserveCaps == {1, 6}
\* the sizes of the arrays passed to builder_from_fixed
FixedSizes == {4}
\* the files read_file is pointed at: none, "", "a", "b\naba"
Files == {[found |-> FALSE, bytes |-> <<>>], [found |-> TRUE, bytes |-> <<>>],
          [found |-> TRUE, bytes |-> <<97>>],
          [found |-> TRUE, bytes |-> <<98, 10, 97, 98, 97>>]}
\* the streams getline reads: "a\nbab"
Streams == {<<97, 10, 98, 97, 98>>}
\* the streams of the getline model: "", "a", "b\n", "a\nbab", "babab",
\* "babab\na"
LineStreams == {<<>>, <<97>>, <<98, 10>>, <<97, 10, 98, 97, 98>>, <<98, 97, 98, 97, 98>>,
                <<98, 97, 98, 97, 98, 10, 97>>}
\* the capacities reserved in the getline model
LineCaps == {1, 2, 4, 6}

\* the longest string literal, and the largest index passed with it
MaxStrLen == 3
\* the string literals: "", "a", "b", "aa", "ab", "aab", "aba"
StrLits == {<<>>, <<97>>, <<98>>, <<97, 97>>, <<97, 98>>, <<97, 97, 98>>,
            <<97, 98, 97>>}
\* the start and end arguments of string_substr
StrIdx == (0 - MaxStrLen)..MaxStrLen

VARIABLES
    mem,      \* the blocks obtained from the system allocator, in order
    owner,    \* ghost: for each block, the arena whose call obtained it (0: none)
    arenas,   \* the Arena structs the caller holds
    regions,  \* ghost: the payload regions the arenas returned and still own
    last,     \* ghost: the last call, its arguments and result
    ncalls,   \* ghost: the allocating calls made so far
    held,     \* the pointer the caller holds: the last one an arena returned
    b,        \* the StringBuilder struct the caller holds
    fp,       \* the stream the caller reads lines from
    call,     \* ghost: the last builder call, its arguments and return value
    fault,    \* "none", or how the process ended inside a builder call
    ab,       \* the StringBuilder of the build whose PMK_REALLOC is the arena
    afault    \* "none", or how that build's process ended inside a call

vars == <<mem, owner, arenas, regions, last, ncalls, held, b, fp, call, fault, ab, afault>>

arenaVars == <<owner, arenas, regions, last, held>>
builderVars == <<b, fp, call, fault, ab, afault>>
hookVars == <<ab, afault>>

(***************************************************************************)
(* Memory                                                                  *)
(***************************************************************************)
\* a byte malloc left uninitialised: no value is guaranteed for it
Indet == 0 - 1

\* size_t arithmetic wraps; the model keeps it at 16 bits, where every length
\* it reaches is far from the wrap, as at 64 bits
SizeMod == 2 ^ 16

NullPtr == [blk |-> 0, off |-> 0]

ZeroArena == [data |-> 0, len |-> 0, cap |-> 0, next_arena |-> 0]

\* StringBuilder builder = {0}
ZeroBuilder == [data |-> NullPtr, len |-> 0, cap |-> 0]

\* x, y: the String arguments (x also: the formatted text, the file's bytes);
\* s, e: the integer arguments; found: the named file exists
NoOp == [op |-> "none", ret |-> 0, x |-> <<>>, y |-> <<>>, s |-> 0, e |-> 0,
         found |-> TRUE]

\* an open stream: the bytes not read yet and the end-of-file indicator
NoStream == [rest |-> <<>>, eof |-> FALSE]

MIN(X, Y) == IF X < Y THEN X ELSE Y
MAX(X, Y) == IF X > Y THEN X ELSE Y

\* ((X) + ((Y)-1)) & ~((Y)-1), Y a power of two: clear the low bits of X + Y - 1
ALIGN_UP(X, Y) == (X + (Y - 1)) - ((X + (Y - 1)) % Y)

\* malloc(n): a live block of n uninitialised bytes, at the lowest address that
\* is free again or else at a new one; malloc(0) returns NULL or a unique
\* pointer, as the implementation chooses (zeroNull)
malloc(m, n, zeroNull) ==
    IF n = 0 /\ zeroNull
    THEN [mem |-> m, ptr |-> 0]
    ELSE LET again == {i \in 1..Len(m) : m[i].st = "freed"}
             id    == IF again = {} THEN Len(m) + 1
                      ELSE CHOOSE i \in again : \A j \in again : i <= j
             blk   == [st |-> "live", bytes |-> [i \in 1..n |-> Indet],
                       node |-> ZeroArena, frees |-> 0]
         IN  [mem |-> IF id > Len(m) THEN Append(m, blk) ELSE [m EXCEPT ![id] = blk],
              ptr |-> id]

\* free(p): free(NULL) does nothing; the bytes of a freed block are gone
free(m, p) ==
    IF p = 0 THEN m
    ELSE [m EXCEPT ![p] = [st |-> "freed", bytes |-> <<>>, node |-> ZeroArena,
                           frees |-> @.frees + 1]]

\* *((size_t *) (blk + off)) = v: the cell of the lowest byte holds the value
WriteWord(m, blk, off, v) ==
    [m EXCEPT ![blk].bytes =
        [i \in DOMAIN @ |-> IF i = off + 1 THEN v
                            ELSE IF i > off + 1 /\ i <= off + SIZEOF_SIZE_T THEN 0
                            ELSE @[i]]]

\* *((size_t *) (blk + off)); Indet when a byte of the word is indeterminate or
\* the word is not one that WriteWord stored
ReadWord(m, blk, off) ==
    LET bs == m[blk].bytes IN
    IF /\ off >= 0
       /\ off + SIZEOF_SIZE_T <= Len(bs)
       /\ bs[off + 1] # Indet
       /\ \A i \in (off + 2)..(off + SIZEOF_SIZE_T) : bs[i] = 0
    THEN bs[off + 1]
    ELSE Indet

\* the n bytes at pointer p
BytesAt(m, p, n) == [i \in 1..n |-> m[p.blk].bytes[p.off + i]]

\* memcpy(dst, src, n) for regions that do not overlap
memcpy(m, dst, src, n) ==
    LET s == BytesAt(m, src, n) IN
    [m EXCEPT ![dst.blk].bytes =
        [i \in DOMAIN @ |-> IF i > dst.off /\ i <= dst.off + n THEN s[i - dst.off]
                            ELSE @[i]]]

(***************************************************************************)
(* pmk_arena.h                                                             *)
(***************************************************************************)
arena_create(m, cap, zeroNull) ==
    LET r == malloc(m, cap, zeroNull) IN
    [mem |-> r.mem,
     arena |-> [data |-> r.ptr, len |-> 0, cap |-> cap, next_arena |-> 0]]

\* a single growing buffer: the full buffer is released, not chained
ArenaMakeRoom_Regrow(m, ar, required) ==
    LET avail == ar.cap - ar.len
        new_arena_cap == MAX(required, DEFAULT_ARENA_CAP)
    IN  IF ar.cap = 0
        THEN arena_create(m, new_arena_cap, FALSE)
        ELSE IF required > avail
        THEN LET c == arena_create(free(m, ar.data), new_arena_cap, FALSE)
             IN  [mem |-> c.mem, arena |-> [c.arena EXCEPT !.next_arena = ar.next_arena]]
        ELSE [mem |-> m, arena |-> ar]

\* the buffer is retired already when the request fills it exactly
ArenaMakeRoom_Strict(m, ar, required) ==
    LET avail == ar.cap - ar.len
        new_arena_cap == MAX(required, DEFAULT_ARENA_CAP)
    IN  IF ar.cap = 0
        THEN arena_create(m, new_arena_cap, FALSE)
        ELSE IF required >= avail
        THEN LET n  == malloc(m, 4 * SIZEOF_SIZE_T, FALSE)
                 m1 == [n.mem EXCEPT ![n.ptr].node = ar, ![n.ptr].bytes = <<>>]
                 c  == arena_create(m1, new_arena_cap, FALSE)
             IN  [mem |-> c.mem, arena |-> [c.arena EXCEPT !.next_arena = n.ptr]]
        ELSE [mem |-> m, arena |-> ar]

\* the buffer the call allocates into: the arena's own, or a fresh one
ArenaMakeRoom(m, ar, required) ==
    LET avail == ar.cap - ar.len
        new_arena_cap == MAX(required, DEFAULT_ARENA_CAP)
    IN  IF ar.cap = 0
        THEN arena_create(m, new_arena_cap, FALSE)
        ELSE IF required > avail
        THEN LET n  == malloc(m, 4 * SIZEOF_SIZE_T, FALSE)
                 m1 == [n.mem EXCEPT ![n.ptr].node = ar, ![n.ptr].bytes = <<>>]
                 c  == arena_create(m1, new_arena_cap, FALSE)
             IN  [mem |-> c.mem, arena |-> [c.arena EXCEPT !.next_arena = n.ptr]]
        ELSE [mem |-> m, arena |-> ar]

\* the old payload is copied one byte short
ArenaCopyOld_Short(m, result, ptr, size) ==
    IF ptr # NullPtr /\ size > 0
    THEN LET old_size == ReadWord(m, ptr.blk, ptr.off - SIZEOF_SIZE_T)
             min_size == MIN(old_size, size)
         IN  memcpy(m, result, ptr, MAX(min_size - 1, 0))
    ELSE m

\* the copy of the old payload into the new region
ArenaCopyOld(m, result, ptr, size) ==
    IF ptr # NullPtr /\ size > 0
    THEN LET old_size == ReadWord(m, ptr.blk, ptr.off - SIZEOF_SIZE_T)
             min_size == MIN(old_size, size)
         IN  memcpy(m, result, ptr, min_size)
    ELSE m

\* the bump pointer is left at the end of the payload, not aligned up
ArenaBump_Unaligned(s1, ptr, size) ==
    LET m2     == WriteWord(s1.mem, s1.arena.data, s1.arena.len, size)
        len1   == (s1.arena.len + SIZEOF_SIZE_T) % SizeMod
        result == [blk |-> s1.arena.data, off |-> len1]
        m3     == ArenaCopyOld(m2, result, ptr, size)
    IN  [mem |-> m3, arena |-> [s1.arena EXCEPT !.len = (len1 + size) % SizeMod],
         result |-> result]

\* the allocation out of the buffer s1 that ArenaMakeRoom has settled on: the
\* header, the bump of len, and the copy of the old payload
ArenaBump(s1, ptr, size) ==
    LET m2     == WriteWord(s1.mem, s1.arena.data, s1.arena.len, size)
        len1   == (s1.arena.len + SIZEOF_SIZE_T) % SizeMod
        result == [blk |-> s1.arena.data, off |-> len1]
        len2   == ALIGN_UP((len1 + size) % SizeMod, ALIGNMENT) % SizeMod
        m3     == ArenaCopyOld(m2, result, ptr, size)
    IN  [mem |-> m3, arena |-> [s1.arena EXCEPT !.len = len2], result |-> result]

arena_realloc_into(m, ar, ptr, size) ==
    IF ptr = NullPtr /\ size = 0
    THEN [mem |-> m, arena |-> ar, result |-> NullPtr]
    ELSE LET required == ALIGN_UP((size + SIZEOF_SIZE_T) % SizeMod, ALIGNMENT) % SizeMod
         IN  CHOOSE out \in {ArenaBump(s1, ptr, size) :
                                s1 \in {ArenaMakeRoom(m, ar, required)}} : TRUE

RECURSIVE _arena_destroy(_, _)
_arena_destroy(m, n) ==
    LET node == m[n].node
        m1 == IF node.next_arena # 0 THEN _arena_destroy(m, node.next_arena) ELSE m
        m2 == free(m1, node.data)
    IN  free(m2, n)

arena_destroy(m, ar) ==
    LET m1 == IF ar.next_arena # 0 THEN _arena_destroy(m, ar.next_arena) ELSE m
    IN  [mem |-> free(m1, ar.data), arena |-> ZeroArena]

(***************************************************************************)
(* The arena model: a caller holding two arenas                            *)
(***************************************************************************)
NoCall == [op |-> "none", a |-> 0, ptr |-> NullPtr, size |-> 0, ret |-> NullPtr]

\* the byte a caller stores at offset i of block blk
Pattern(blk, i) == 65 + ((3 * blk + i) % 7)

\* a block that malloc may hand out next: not live in memory m
Fresh(m, i) == i > Len(m) \/ m[i].st = "freed"

\* the blocks that memory m2 holds and m did not were obtained by arena a
Tag(o, m, m2, a) ==
    [i \in 1..Len(m2) |-> IF Fresh(m, i) /\ m2[i].st = "live" THEN a ELSE o[i]]

InitArena ==
    /\ mem = <<>>
    /\ owner = <<>>
    /\ arenas = [a \in ArenaIds |-> ZeroArena]
    /\ regions = {}
    /\ last = NoCall
    /\ ncalls = 0
    /\ held = NullPtr
    /\ b = ZeroBuilder
    /\ fp = NoStream
    /\ call = NoOp
    /\ fault = "none"
    /\ ab = ZeroBuilder
    /\ afault = "none"

\* arena = arena_create(cap), into an Arena variable that holds no arena
ArenaCreate(a, cap, zeroNull) ==
    /\ arenas[a] = ZeroArena
    /\ ncalls < MaxCalls
    /\ ncalls' = ncalls + 1
    /\ held' = held
    /\ UNCHANGED builderVars
    /\ LET r == arena_create(mem, cap, zeroNull) IN
       /\ Len(r.mem) <= MaxBlocks
       /\ mem' = r.mem
       /\ owner' = Tag(owner, mem, r.mem, a)
       /\ arenas' = [arenas EXCEPT ![a] = r.arena]
       /\ regions' = regions
       /\ last' = [NoCall EXCEPT !.op = "create", !.a = a, !.size = cap]

\* arena_realloc_into(&arena, ptr, size), ptr NULL or a pointer an arena returned
ArenaRealloc(a, ptr, size) ==
    LET r == arena_realloc_into(mem, arenas[a], ptr, size) IN
    /\ ncalls < MaxCalls
    /\ ncalls' = ncalls + 1
    /\ held' = IF r.result = NullPtr THEN held ELSE r.result
    /\ UNCHANGED builderVars
    /\ Len(r.mem) <= MaxBlocks
    /\ mem' = r.mem
    /\ owner' = Tag(owner, mem, r.mem, a)
    /\ arenas' = [arenas EXCEPT ![a] = r.arena]
    /\ regions' = IF r.result = NullPtr THEN regions
                  ELSE regions \cup {[a |-> a, blk |-> r.result.blk,
                                      off |-> r.result.off, size |-> size]}
    /\ last' = [op |-> "realloc", a |-> a, ptr |-> ptr, size |-> size,
                ret |-> r.result]

\* arena_destroy(&arena); the caller drops the pointers into it
ArenaDestroy(a) ==
    LET r == arena_destroy(mem, arenas[a]) IN
    /\ mem' = r.mem
    /\ owner' = owner
    /\ arenas' = [arenas EXCEPT ![a] = r.arena]
    /\ regions' = {x \in regions : x.a # a}
    /\ last' = [NoCall EXCEPT !.op = "destroy", !.a = a]
    /\ ncalls' = ncalls
    /\ UNCHANGED builderVars
    /\ held' = IF \E x \in regions : x.a = a /\ x.blk = held.blk THEN NullPtr ELSE held

\* the caller fills the payload it holds
WritePayload(x) ==
    /\ x.size > 0
    /\ held = [blk |-> x.blk, off |-> x.off]
    /\ mem' = [mem EXCEPT ![x.blk].bytes =
                 [i \in DOMAIN @ |-> IF i > x.off /\ i <= x.off + x.size
                                     THEN Pattern(x.blk, x.off + i - x.off - 1)
                                     ELSE @[i]]]
    /\ mem' # mem
    /\ UNCHANGED <<owner, arenas, regions, last, ncalls, held>>
    /\ UNCHANGED builderVars

\* the pointers the caller passes: NULL, or one an arena returned and still owns
RegionPtrs == {[blk |-> x.blk, off |-> x.off] : x \in regions}

NextArena ==
    \/ \E a \in ArenaIds, cap \in CreateCaps, zn \in BOOLEAN : ArenaCreate(a, cap, zn)
    \/ \E a \in ArenaIds, p \in RegionPtrs \cup {NullPtr}, s \in ReqSizes :
          ArenaRealloc(a, p, s)
    \/ \E a \in ArenaIds : ArenaDestroy(a)
    \/ \E x \in regions : WritePayload(x)

SpecArena == InitArena /\ [][NextArena]_vars

(***************************************************************************)
(* Properties of the arena                                                 *)
(***************************************************************************)
RECURSIVE ChainBufs(_, _)
ChainBufs(m, n) ==
    IF n = 0 THEN {} ELSE {m[n].node.data} \cup ChainBufs(m, m[n].node.next_arena)

RECURSIVE ChainLen(_, _)
ChainLen(m, n) == IF n = 0 THEN 0 ELSE 1 + ChainLen(m, m[n].node.next_arena)

\* the buffers an arena owns: its current one and those of its retired chain
OwnedBufs(m, ar) == ({ar.data} \cup ChainBufs(m, ar.next_arena)) \ {0}

\* header word and payload of a region, as a pointer and a length
SpanPtr(x) == [blk |-> x.blk, off |-> x.off - SIZEOF_SIZE_T]
SpanLen(x) == x.size + SIZEOF_SIZE_T

RegionInside(x) ==
    /\ x.blk \in OwnedBufs(mem, arenas[x.a])
    /\ mem[x.blk].st = "live"
    /\ x.off - SIZEOF_SIZE_T >= 0
    /\ x.off + x.size <= Len(mem[x.blk].bytes)

RegionsDisjoint(x, y) ==
    \/ x = y
    \/ x.blk # y.blk
    \/ x.off + x.size <= y.off - SIZEOF_SIZE_T
    \/ y.off + y.size <= x.off - SIZEOF_SIZE_T

IsReallocStep == last'.op = "realloc" /\ ncalls' # ncalls

RegionOf(p) == CHOOSE x \in regions : x.blk = p.blk /\ x.off = p.off

\* C2: between creation and arena_destroy, every region an arena returned
\* (header word and payload) lies inside a live buffer the arena owns, regions
\* do not overlap, and no call of arena_realloc_into frees a block or changes a
\* byte of a region returned earlier.
C2_RegionsInside ==
    \A x \in regions : RegionInside(x) /\ \A y \in regions : RegionsDisjoint(x, y)

C2_ReallocKeeps ==
    IsReallocStep =>
        /\ \A i \in 1..Len(mem) : mem[i].st = "live" => mem'[i].st = "live"
        /\ \A x \in regions :
              BytesAt(mem', SpanPtr(x), SpanLen(x)) = BytesAt(mem, SpanPtr(x), SpanLen(x))

C2_RegionsStable == []C2_RegionsInside /\ [][C2_ReallocKeeps]_vars

\* a region lives in a retired buffer next to a region of the current buffer
C2_Witness ==
    \E x \in regions, y \in regions :
        /\ x.a = y.a
        /\ y.blk = arenas[y.a].data
        /\ x.blk \in ChainBufs(mem, arenas[x.a].next_arena)
        /\ x.size > 0
        /\ mem[x.blk].bytes[x.off + 1] # Indet

\* C3: arena_realloc_into(arena, ptr, n) with ptr a region of s_old bytes and
\* n > 0 stores n in the header word before the result, copies the first
\* min(s_old, n) bytes of ptr and leaves the old region as it was, whichever
\* arena ptr belongs to and whether or not the call retires ptr's buffer.
C3_ReallocCopies ==
    (IsReallocStep /\ last'.ptr # NullPtr /\ last'.size > 0) =>
        LET old == RegionOf(last'.ptr)
            n   == last'.size
            k   == MIN(old.size, n)
        IN  /\ ReadWord(mem', last'.ret.blk, last'.ret.off - SIZEOF_SIZE_T) = n
            /\ BytesAt(mem', last'.ret, k) = BytesAt(mem, last'.ptr, k)
            /\ BytesAt(mem', SpanPtr(old), SpanLen(old))
                 = BytesAt(mem, SpanPtr(old), SpanLen(old))

C3_ReallocPreserves == [][C3_ReallocCopies]_vars

\* written bytes were copied out of a buffer that the call itself retired
C3_Witness ==
    /\ last.op = "realloc" /\ last.ptr # NullPtr /\ last.size > 0
    /\ last.ret.blk # last.ptr.blk
    /\ arenas[last.a].next_arena # 0
    /\ mem[arenas[last.a].next_arena].node.data = last.ptr.blk
    /\ last.ret.off = SIZEOF_SIZE_T
    /\ mem[last.ptr.blk].bytes[last.ptr.off + 1] # Indet
    /\ mem[last.ret.blk].bytes[last.ret.off + 1] = mem[last.ptr.blk].bytes[last.ptr.off + 1]

\* C4: arena_realloc_into with size 0 changes nothing: neither the arena struct
\* nor the memory (no bytes consumed, no buffer created), for a non-null ptr as
\* for ptr == NULL, where it returns NULL.
C4_FreeStep ==
    (IsReallocStep /\ last'.size = 0) =>
        /\ arenas' = arenas
        /\ mem' = mem
        /\ (last'.ptr = NullPtr => last'.ret = NullPtr)

C4_FreeIsNoOp == [][C4_FreeStep]_vars

\* C5: with required = align_up(size + header): a call on an arena that has a
\* buffer (cap # 0) and too little room retires exactly the previous struct into
\* a new head node and allocates at offset 0 of a fresh buffer of capacity
\* max(required, DEFAULT_ARENA_CAP); a call with enough room changes only len,
\* by exactly required.
C5_ReallocStep ==
    (IsReallocStep /\ last'.ret # NullPtr /\ arenas[last'.a].cap # 0) =>
        LET pre      == arenas[last'.a]
            post     == arenas'[last'.a]
            required == ALIGN_UP(last'.size + SIZEOF_SIZE_T, ALIGNMENT)
        IN  IF required > pre.cap - pre.len
            THEN /\ ChainLen(mem', post.next_arena) = ChainLen(mem, pre.next_arena) + 1
                 /\ Fresh(mem, post.next_arena)
                 /\ mem'[post.next_arena].node = pre
                 /\ Fresh(mem, post.data) /\ post.data # post.next_arena
                 /\ post.cap = MAX(required, DEFAULT_ARENA_CAP)
                 /\ Len(mem'[post.data].bytes) = post.cap
                 /\ last'.ret = [blk |-> post.data, off |-> SIZEOF_SIZE_T]
                 /\ post.len = required
            ELSE /\ post = [pre EXCEPT !.len = pre.len + required]
                 /\ \A i \in 1..Len(mem') : mem'[i].st = "live" => ~Fresh(mem, i)
                 /\ last'.ret = [blk |-> pre.data, off |-> pre.len + SIZEOF_SIZE_T]

C5_GrowOrBump == [][C5_ReallocStep]_vars

\* a call retired a buffer for a request larger than the default capacity
C5_Witness ==
    /\ last.op = "realloc"
    /\ arenas[last.a].next_arena # 0
    /\ ChainLen(mem, arenas[last.a].next_arena) = 2
    /\ arenas[last.a].cap > DEFAULT_ARENA_CAP
    /\ last.ret = [blk |-> arenas[last.a].data, off |-> SIZEOF_SIZE_T]

\* C6: after arena_destroy every block the arena ever obtained has been freed
\* exactly once and the struct is the zero value; arena_destroy on a zero
\* arena frees nothing.
C6_AllFreedOnce ==
    last.op = "destroy" =>
        /\ arenas[last.a] = ZeroArena
        /\ \A i \in 1..Len(mem) :
              owner[i] = last.a => (mem[i].st = "freed" /\ mem[i].frees = 1)

C6_SecondDestroy ==
    \A a \in ArenaIds :
        (ArenaDestroy(a) /\ arenas[a] = ZeroArena) => (mem' = mem /\ arenas' = arenas)

C6_DestroyFreesAll == []C6_AllFreedOnce /\ [][C6_SecondDestroy]_vars

RECURSIVE ChainNodes(_, _)
ChainNodes(m, n) ==
    IF n = 0 THEN {} ELSE {m[n].node} \cup ChainNodes(m, m[n].node.next_arena)

\* an arena and the nodes of its retired chain
ArenaNodes(m, ar) == {ar} \cup ChainNodes(m, ar.next_arena)

\* the buffer of node n holds cap bytes, and what has been handed out of it
\* ends at an aligned len within cap
NodeInBounds(m, n) ==
    /\ n.len <= n.cap
    /\ n.len % ALIGNMENT = 0
    /\ n.data # 0 => m[n.data].st = "live" /\ Len(m[n.data].bytes) = n.cap

\* header and payload of region x lie below the len of the node they are in
RegionBelowLen(m, x, n) ==
    x.blk = n.data => x.off - SIZEOF_SIZE_T >= 0 /\ x.off + x.size <= n.len

\* C25: whatever cap an arena was created with (0, not a multiple of
\* ALIGNMENT, less than one header), after any calls of arena_realloc_into
\* the arena and every node of its retired chain have len <= cap and len a
\* multiple of ALIGNMENT, and every header and payload handed out lies in
\* [data, data + len) of its node, so inside the cap bytes of the buffer
C25_LenWithinCap ==
    \A a \in ArenaIds : \A n \in ArenaNodes(mem, arenas[a]) :
        /\ NodeInBounds(mem, n)
        /\ \A x \in regions : x.a = a => RegionBelowLen(mem, x, n)

\* an arena created with a cap that is no multiple of ALIGNMENT has had a
\* region handed out of that buffer and has then retired it, with less than
\* one header left, for a new buffer it has handed a region out of
C25_Witness ==
    \E a \in ArenaIds : \E n \in ChainNodes(mem, arenas[a].next_arena) :
        /\ n.cap % ALIGNMENT # 0
        /\ n.len > 0
        /\ n.cap - n.len < SIZEOF_SIZE_T
        /\ arenas[a].len > 0
        /\ last.op = "realloc"

(***************************************************************************)
(* The C library under pmk_string.h                                        *)
(***************************************************************************)
\* the largest request the allocator serves
PTRDIFF_MAX == (SizeMod \div 2) - 1

ENOBUFS == 105
ENOENT == 2

\* a size_t value read as a signed integer
ToInt(x) == IF x % SizeMod >= SizeMod \div 2 THEN (x % SizeMod) - SizeMod
            ELSE x % SizeMod

ToPtr(id) == [blk |-> id, off |-> 0]

\* the n bytes at p + off are bytes of an object: n = 0 touches nothing
Valid(m, p, off, n) ==
    \/ n = 0
    \/ /\ n > 0
       /\ p.blk # 0
       /\ m[p.blk].st # "freed"
       /\ p.off + off >= 0
       /\ p.off + off + n <= Len(m[p.blk].bytes)

\* store the bytes bs at p + off
Poke(m, p, off, bs) ==
    IF bs = <<>> THEN m
    ELSE [m EXCEPT ![p.blk].bytes =
            [i \in DOMAIN @ |-> IF i > p.off + off /\ i <= p.off + off + Len(bs)
                                THEN bs[i - (p.off + off)]
                                ELSE @[i]]]

\* realloc(p, n); nd is the choice the implementation is free to make:
\*   p == NULL or n == 0: malloc(0) returns NULL (nd) or a unique pointer, and
\*     realloc(p, 0) frees p and returns the one or the other;
\*   p not a live pointer of the allocator: undefined, the process aborts (nd)
\*     or the call goes on as if p were one;
\*   otherwise: the block is resized in place (nd) or moved.
\* A request above PTRDIFF_MAX fails: NULL, the old block untouched.
realloc(m, p, n, nd) ==
    IF n > PTRDIFF_MAX
    THEN [mem |-> m, ptr |-> NullPtr, fault |-> "none"]
    ELSE IF p = NullPtr
    THEN LET r == malloc(m, n, nd)
         IN  [mem |-> r.mem, ptr |-> ToPtr(r.ptr), fault |-> "none"]
    ELSE IF m[p.blk].st # "live" \/ p.off # 0
    THEN IF nd
         THEN [mem |-> m, ptr |-> p, fault |-> "abort"]
         ELSE LET hit == [m EXCEPT ![p.blk].frees = @ + 1]
                  keep == MIN(n, Len(m[p.blk].bytes) - p.off)
                  r   == malloc(hit, n, TRUE)
              IN  IF n = 0
                  THEN [mem |-> hit, ptr |-> NullPtr, fault |-> "none"]
                  ELSE [mem |-> memcpy(r.mem, ToPtr(r.ptr), p, MAX(keep, 0)),
                        ptr |-> ToPtr(r.ptr), fault |-> "none"]
    ELSE IF n = 0
    THEN LET r == malloc(m, 0, nd)
         IN  [mem |-> free(r.mem, p.blk), ptr |-> ToPtr(r.ptr), fault |-> "none"]
    ELSE IF nd
    THEN [mem |-> [m EXCEPT ![p.blk].bytes =
                      [i \in 1..n |-> IF i <= Len(@) THEN @[i] ELSE Indet]],
          ptr |-> p, fault |-> "none"]
    ELSE LET r  == malloc(m, n, TRUE)
             m1 == memcpy(r.mem, ToPtr(r.ptr), p, MIN(n, Len(m[p.blk].bytes)))
         IN  [mem |-> free(m1, p.blk), ptr |-> ToPtr(r.ptr), fault |-> "none"]

(***************************************************************************)
(* pmk_string.h: String                                                    *)
(***************************************************************************)
\* the byte p[i] of an object
ByteOf(m, p, i) == m[p.blk].bytes[p.off + i + 1]

\* (String) { .data = p, .len = n }
String(p, n) == [data |-> p, len |-> n]

builder_to_string(bb) == String(bb.data, bb.len)

\* the outcome of a call that returns a String
ResS(string, f) == [view |-> string, fault |-> f]

\* memcmp(p, q, n): 0, or a value with the sign of the difference of the first
\* two bytes that differ, read as unsigned char; diff says whether it is the
\* difference itself
memcmp(m, p, q, n, diff) ==
    LET d == {i \in 0..(n - 1) : ByteOf(m, p, i) # ByteOf(m, q, i)} IN
    IF d = {} THEN 0
    ELSE LET i == CHOOSE i \in d : \A j \in d : i <= j
             c == ByteOf(m, p, i) - ByteOf(m, q, i)
         IN  IF diff THEN c ELSE IF c < 0 THEN 0 - 1 ELSE 1

string_equal(m, s1, s2) ==
    IF s1.len # s2.len THEN 0
    ELSE IF memcmp(m, s1.data, s2.data, s1.len, TRUE) = 0 THEN 1 ELSE 0

\* the shorter string comes after the longer one
string_compare_LongerFirst(m, s1, s2, diff) ==
    LET min_len == IF s1.len < s2.len THEN s1.len ELSE s2.len
        cmp == memcmp(m, s1.data, s2.data, min_len, diff)
    IN  IF cmp = 0
        THEN IF s1.len = s2.len THEN 0
             ELSE IF s1.len < s2.len THEN 1 ELSE 0 - 1
        ELSE cmp

string_compare(m, s1, s2, diff) ==
    LET min_len == IF s1.len < s2.len THEN s1.len ELSE s2.len
        cmp == memcmp(m, s1.data, s2.data, min_len, diff)
    IN  IF cmp = 0
        THEN IF s1.len = s2.len THEN 0
             ELSE IF s1.len < s2.len THEN 0 - 1 ELSE 1
        ELSE cmp

\* the byte string.data[i] is one of the bytes of set
InSet(m, string, i, set) ==
    \E j \in 0..(set.len - 1) : ByteOf(m, string.data, i) = ByteOf(m, set.data, j)

\* the number of leading bytes of string that are in accept
string_span(m, string, accept) ==
    LET out == {i \in 0..(string.len - 1) : ~InSet(m, string, i, accept)} IN
    IF out = {} THEN string.len ELSE CHOOSE i \in out : \A j \in out : i <= j

\* the number of leading bytes of string that are not in reject
string_cspan(m, string, reject) ==
    LET in == {i \in 0..(string.len - 1) : InSet(m, string, i, reject)} IN
    IF in = {} THEN string.len ELSE CHOOSE i \in in : \A j \in in : i <= j

\* string.data += n; string.len -= n
Advance(string, n) ==
    String([string.data EXCEPT !.off = @ + n], (string.len - n) % SizeMod)

\* the cursor moves by the length of the token only
string_tokenize_NoSkip(m, string, delim, saveptr) ==
    LET s1    == Advance(string, saveptr)
        start == string_span(m, s1, delim)
        s2    == Advance(s1, start)
        end   == string_cspan(m, s2, delim)
    IN  [view |-> String(s2.data, end), saveptr |-> (saveptr + end) % SizeMod]

\* the token returned and the value left in *saveptr
string_tokenize(m, string, delim, saveptr) ==
    LET s1    == Advance(string, saveptr)
        start == string_span(m, s1, delim)
        s2    == Advance(s1, start)
        end   == string_cspan(m, s2, delim)
    IN  [view |-> String(s2.data, end), saveptr |-> (saveptr + start + end) % SizeMod]

\* a negative index is used as it is
string_substr_NoNeg(string, start0, end0) ==
    IF ~(start0 >= 0) \/ ~(end0 >= 0) \/ ~(start0 <= end0)
          \/ ~(end0 <= ToInt(string.len))
    THEN ResS(String(NullPtr, 0), "assert")
    ELSE ResS(String([string.data EXCEPT !.off = @ + start0], (end0 - start0) % SizeMod),
              "none")

string_substr(string, start0, end0) ==
    LET start == IF start0 < 0 THEN ToInt(start0 + string.len) ELSE start0
        end   == IF end0 < 0 THEN ToInt(end0 + string.len) ELSE end0
    IN  IF ~(start >= 0) \/ ~(end >= 0) \/ ~(start <= end) \/ ~(end <= ToInt(string.len))
        THEN ResS(String(NullPtr, 0), "assert")
        ELSE ResS(String([string.data EXCEPT !.off = @ + start], (end - start) % SizeMod),
                  "none")

(***************************************************************************)
(* pmk_string.h: StringBuilder                                             *)
(***************************************************************************)
\* the outcome of a call: memory, the builder, the return value and how the
\* process ended if it did ("none": the call returned)
Res(m, bb, ret, f) == [mem |-> m, b |-> bb, ret |-> ret, fault |-> f]

\* the context argument of the *_context functions. With the default hook it
\* is not used (arena 0), and choice is the choice realloc is free to make;
\* with the arena hook it is the Arena variable, the node of block blk
DefaultHook == {[arena |-> 0, choice |-> x] : x \in BOOLEAN}
ArenaContext(blk) == [arena |-> blk, choice |-> FALSE]

\* #define PMK_REALLOC(c,p,s) arena_realloc_into(c,p,s): the call on the Arena
\* at context c. Undefined when a store or a load leaves its object: the
\* header at data + len, the old header at p - sizeof(size_t), or one of the
\* min(old_size, n) bytes copied
ArenaHook(m, c, p, n) ==
    LET ar       == m[c.arena].node
        required == ALIGN_UP((n + SIZEOF_SIZE_T) % SizeMod, ALIGNMENT) % SizeMod
        room     == IF ar.cap = 0 \/ required > ar.cap - ar.len
                    THEN MAX(required, DEFAULT_ARENA_CAP)
                    ELSE IF ar.data = 0 THEN 0 ELSE Len(m[ar.data].bytes) - ar.len
        old_size == ReadWord(m, p.blk, p.off - SIZEOF_SIZE_T)
        min_size == MIN(old_size, n)
    IN  IF p = NullPtr /\ n = 0 THEN [mem |-> m, ptr |-> NullPtr, fault |-> "none"]
        ELSE IF room < SIZEOF_SIZE_T THEN [mem |-> m, ptr |-> p, fault |-> "ub"]
        ELSE IF /\ p # NullPtr
                /\ n > 0
                /\ \/ m[p.blk].st = "freed"
                   \/ old_size = Indet
                   \/ p.off + min_size > Len(m[p.blk].bytes)
                   \/ SIZEOF_SIZE_T + min_size > room
        THEN [mem |-> m, ptr |-> p, fault |-> "ub"]
        ELSE CHOOSE out \in {[mem |-> [r.mem EXCEPT ![c.arena].node = r.arena],
                              ptr |-> r.result, fault |-> "none"] :
                                r \in {arena_realloc_into(m, ar, p, n)}} : TRUE

\* PMK_REALLOC(c, p, n): realloc(p, n) by default, c then being the choice
\* realloc is free to make, or arena_realloc_into(c, p, n) on the Arena at c
PMK_REALLOC(m, c, p, n) ==
    IF c.arena = 0 THEN realloc(m, p, n, c.choice) ELSE ArenaHook(m, c, p, n)

\* without the early return: the buffer is resized to cap in every call
builder_reserve_context_Always(m, bb, cap, nd) ==
    LET r == realloc(m, bb.data, cap, nd.choice)
    IN  Res(r.mem, [bb EXCEPT !.cap = cap, !.data = r.ptr], 0, r.fault)

builder_reserve_context(m, bb, cap, nd) ==
    IF bb.cap >= cap
    THEN Res(m, bb, 0, "none")
    ELSE LET r == PMK_REALLOC(m, nd, bb.data, cap)
         IN  Res(r.mem, [bb EXCEPT !.cap = cap, !.data = r.ptr], 0, r.fault)

\* the struct is left as it was
builder_destroy_context_Keep(m, bb, nd) ==
    LET r == realloc(m, bb.data, 0, nd.choice)
    IN  Res(r.mem, [bb EXCEPT !.data = r.ptr], 0, r.fault)

builder_destroy_context(m, bb, nd) ==
    LET r == PMK_REALLOC(m, nd, bb.data, 0)
    IN  Res(r.mem, IF r.fault = "none" THEN ZeroBuilder ELSE bb, 0, r.fault)

\* growth to the exact fit, without the doubling
GrowCap_Exact(bb, new_len) ==
    IF bb.cap < (new_len + 1) % SizeMod THEN (new_len + 1) % SizeMod ELSE bb.cap

\* the capacity after the growth step of append and print
GrowCap(bb, new_len) ==
    IF bb.cap < (new_len + 1) % SizeMod
    THEN MAX((bb.cap * 2) % SizeMod, (new_len + 1) % SizeMod)
    ELSE bb.cap

\* the bytes are stored at the start of the buffer, not after the contents
builder_append_context_AtStart(m, bb, string, nd) ==
    LET new_len == (bb.len + Len(string)) % SizeMod
        cap1 == GrowCap(bb, new_len)
        r  == IF bb.cap < (new_len + 1) % SizeMod
              THEN realloc(m, bb.data, cap1, nd.choice)
              ELSE [mem |-> m, ptr |-> bb.data, fault |-> "none"]
        b1 == [bb EXCEPT !.cap = cap1, !.data = r.ptr]
    IN  IF r.fault # "none" THEN Res(r.mem, b1, 0, r.fault)
        ELSE IF ~Valid(r.mem, r.ptr, bb.len, Len(string) + 1) THEN Res(r.mem, b1, 0, "ub")
        ELSE Res(Poke(Poke(r.mem, r.ptr, 0, string), r.ptr, new_len, <<0>>),
                 [b1 EXCEPT !.len = new_len], 0, "none")

builder_append_context(m, bb, string, nd) ==
    LET new_len == (bb.len + Len(string)) % SizeMod
        cap1 == GrowCap(bb, new_len)
        r  == IF bb.cap < (new_len + 1) % SizeMod
              THEN PMK_REALLOC(m, nd, bb.data, cap1)
              ELSE [mem |-> m, ptr |-> bb.data, fault |-> "none"]
        b1 == [bb EXCEPT !.cap = cap1, !.data = r.ptr]
    IN  IF r.fault # "none" THEN Res(r.mem, b1, 0, r.fault)
        ELSE IF ~(cap1 >= (new_len + 1) % SizeMod) THEN Res(r.mem, b1, 0, "assert")
        ELSE IF ~Valid(r.mem, r.ptr, bb.len, Len(string) + 1) THEN Res(r.mem, b1, 0, "ub")
        ELSE Res(Poke(r.mem, r.ptr, bb.len, Append(string, 0)),
                 [b1 EXCEPT !.len = new_len], 0, "none")

builder_append_fixed(m, bb, string) ==
    IF bb.cap < (bb.len + Len(string) + 1) % SizeMod
    THEN Res(m, bb, 0 - ENOBUFS, "none")
    ELSE IF ~Valid(m, bb.data, bb.len, Len(string) + 1) THEN Res(m, bb, 0, "ub")
    ELSE Res(Poke(m, bb.data, bb.len, Append(string, 0)),
             [bb EXCEPT !.len = (bb.len + Len(string)) % SizeMod], 0, "none")

\* vsnprintf(p + off, rem, fmt, ...) for a format that expands to text: at
\* most rem - 1 bytes of text and a terminator; nothing when rem is 0
vsnprintf(m, p, off, rem, text) ==
    IF rem = 0 THEN [mem |-> m, fault |-> "none"]
    ELSE LET k == MIN(Len(text), rem - 1) IN
         IF ~Valid(m, p, off, k + 1) THEN [mem |-> m, fault |-> "ub"]
         ELSE [mem |-> Poke(m, p, off, Append(SubSeq(text, 1, k), 0)),
               fault |-> "none"]

builder_print_context(m, bb, text, nd) ==
    LET additional_len == Len(text)
        new_len == (bb.len + additional_len) % SizeMod
        cap1 == GrowCap(bb, new_len)
        r  == IF bb.cap < (new_len + 1) % SizeMod
              THEN PMK_REALLOC(m, nd, bb.data, cap1)
              ELSE [mem |-> m, ptr |-> bb.data, fault |-> "none"]
        b1 == [bb EXCEPT !.cap = cap1, !.data = r.ptr]
        rem == (cap1 - bb.len) % SizeMod
        w  == vsnprintf(r.mem, r.ptr, bb.len, rem, text)
    IN  IF r.fault # "none" THEN Res(r.mem, b1, 0, r.fault)
        ELSE IF ~(cap1 >= (new_len + 1) % SizeMod) THEN Res(r.mem, b1, 0, "assert")
        ELSE IF w.fault # "none" THEN Res(r.mem, b1, 0, w.fault)
        ELSE Res(w.mem, [b1 EXCEPT !.len = new_len], 0, "none")

builder_print_fixed(m, bb, text) ==
    LET required == Len(text) + 1
        rem == (bb.cap - bb.len) % SizeMod
        w   == vsnprintf(m, bb.data, bb.len, rem, text)
        num_trunc == ToInt(required - rem)
    IN  IF w.fault # "none" THEN Res(m, bb, 0, w.fault)
        ELSE IF num_trunc > 0
        THEN Res(w.mem, [bb EXCEPT !.len = (bb.cap - 1) % SizeMod], num_trunc, "none")
        ELSE Res(w.mem, [bb EXCEPT !.len = (bb.len + required - 1) % SizeMod], 0, "none")

\* string_find over the len bytes at p, from index i on: the index of the first
\* occurrence of needle, len if there is none, Indet if the scan leaves the
\* object or compares a byte that was never written
RECURSIVE FindFrom(_, _, _, _, _)
FindFrom(m, p, len, needle, i) ==
    IF i > len - Len(needle) THEN len
    ELSE IF ~Valid(m, p, i, Len(needle)) THEN Indet
    ELSE LET at == BytesAt(m, [p EXCEPT !.off = @ + i], Len(needle)) IN
         IF at = needle THEN i
         ELSE IF \E j \in 1..Len(needle) : at[j] = Indet THEN Indet
         ELSE FindFrom(m, p, len, needle, i + 1)

\* the scan starts at index 1
string_find_FromOne(m, p, len, needle) ==
    IF Len(needle) > len THEN len ELSE FindFrom(m, p, len, needle, 1)

string_find(m, p, len, needle) ==
    IF Len(needle) > len THEN len ELSE FindFrom(m, p, len, needle, 0)

\* memmove(p + dst, p + src, n); memcpy(p + at, string, |string|);
\* p[new_len] = '\0': the common end of replace and splice
MoveAndFill(m, bb, src, dst, n, at, string, new_len) ==
    IF \/ ~Valid(m, bb.data, src, n)
       \/ ~Valid(m, bb.data, dst, n)
       \/ ~Valid(m, bb.data, at, Len(string))
       \/ ~Valid(m, bb.data, new_len, 1)
    THEN Res(m, bb, 0, "ub")
    ELSE LET rest == BytesAt(m, [bb.data EXCEPT !.off = @ + src], n)
             m1 == Poke(m, bb.data, dst, rest)
             m2 == Poke(m1, bb.data, at, string)
         IN  Res(Poke(m2, bb.data, new_len, <<0>>), [bb EXCEPT !.len = new_len], 0, "none")

\* the bytes after x are not moved
ReplaceFound_NoMove(m, bb, x, y, new_len, miss) ==
    LET x_in_b == string_find(m, bb.data, bb.len, x) IN
    IF x_in_b = Indet THEN Res(m, bb, 0, "ub")
    ELSE IF x_in_b = bb.len THEN Res(m, bb, miss, "none")
    ELSE MoveAndFill(m, bb, x_in_b + Len(x), x_in_b + Len(y), 0, x_in_b, y, new_len)

\* the part of replace after the capacity check; miss is returned when x is
\* not in the builder
ReplaceFound(m, bb, x, y, new_len, miss) ==
    LET x_in_b == string_find(m, bb.data, bb.len, x) IN
    IF x_in_b = Indet THEN Res(m, bb, 0, "ub")
    ELSE IF x_in_b = bb.len THEN Res(m, bb, miss, "none")
    ELSE MoveAndFill(m, bb, x_in_b + Len(x), x_in_b + Len(y),
                     bb.len - x_in_b - Len(x), x_in_b, y, new_len)

builder_replace_context(m, bb, x, y, nd) ==
    IF Len(x) = 0 THEN Res(m, bb, 0, "none")
    ELSE LET new_len == (bb.len - Len(x) + Len(y)) % SizeMod
             new_cap == MAX((bb.cap * 2) % SizeMod, (new_len + 1) % SizeMod)
             r == IF (new_len + 1) % SizeMod > bb.cap
                  THEN builder_reserve_context(m, bb, new_cap, nd)
                  ELSE Res(m, bb, 0, "none")
         IN  IF r.fault # "none" THEN r
             ELSE IF ~(r.b.cap >= (new_len + 1) % SizeMod) THEN Res(r.mem, r.b, 0, "assert")
             ELSE ReplaceFound(r.mem, r.b, x, y, new_len, 0)

builder_replace_fixed(m, bb, x, y) ==
    IF Len(x) = 0 THEN Res(m, bb, 0 - 1, "none")
    ELSE LET new_len == (bb.len - Len(x) + Len(y)) % SizeMod IN
         IF (new_len + 1) % SizeMod > bb.cap THEN Res(m, bb, 0 - 1, "none")
         ELSE ReplaceFound(m, bb, x, y, new_len, 0 - 1)

\* start and end after the adjustment of negative values
SpliceIndex(bb, i) == IF i < 0 THEN ToInt(i + bb.len) ELSE i

\* without the assertion end <= len
SpliceAsserts_NoUpper(bb, start, end) ==
    /\ start >= 0
    /\ end >= 0
    /\ start <= end

\* the four assertions of splice
SpliceAsserts(bb, start, end) ==
    /\ start >= 0
    /\ end >= 0
    /\ start <= end
    /\ end <= ToInt(bb.len)

\* the bytes from start on are kept, not those from end on
builder_splice_context_NoRemove(m, bb, start0, end0, string, nd) ==
    LET start == SpliceIndex(bb, start0)
        end   == SpliceIndex(bb, end0)
        nremove == (end - start) % SizeMod
        new_len == (bb.len - nremove + Len(string)) % SizeMod
        new_cap == MAX((bb.cap * 2) % SizeMod, (bb.len + Len(string) + 1) % SizeMod)
        r == IF (bb.len + Len(string) + 1) % SizeMod > bb.cap
             THEN builder_reserve_context(m, bb, new_cap, nd)
             ELSE Res(m, bb, 0, "none")
    IN  IF ~SpliceAsserts(bb, start, end) THEN Res(m, bb, 0, "assert")
        ELSE IF r.fault # "none" THEN r
        ELSE MoveAndFill(r.mem, r.b, start, start + Len(string), bb.len - end,
                         start, string, new_len)

builder_splice_context(m, bb, start0, end0, string, nd) ==
    LET start == SpliceIndex(bb, start0)
        end   == SpliceIndex(bb, end0)
        nremove == (end - start) % SizeMod
        new_len == (bb.len - nremove + Len(string)) % SizeMod
        new_cap == MAX((bb.cap * 2) % SizeMod, (new_len + 1) % SizeMod)
        r == IF (new_len + 1) % SizeMod > bb.cap
             THEN builder_reserve_context(m, bb, new_cap, nd)
             ELSE Res(m, bb, 0, "none")
    IN  IF ~SpliceAsserts(bb, start, end) THEN Res(m, bb, 0, "assert")
        ELSE IF r.fault # "none" THEN r
        ELSE MoveAndFill(r.mem, r.b, end, start + Len(string), bb.len - end,
                         start, string, new_len)

builder_splice_fixed(m, bb, start0, end0, string) ==
    LET start == SpliceIndex(bb, start0)
        end   == SpliceIndex(bb, end0)
        nremove == (end - start) % SizeMod
        new_len == (bb.len - nremove + Len(string)) % SizeMod
    IN  IF ~SpliceAsserts(bb, start, end) THEN Res(m, bb, 0, "assert")
        ELSE IF (new_len + 1) % SizeMod > bb.cap THEN Res(m, bb, 0 - 1, "none")
        ELSE MoveAndFill(m, bb, end, start + Len(string), bb.len - end,
                         start, string, new_len)

\* the outcome of a call that reads the stream
ResF(m, bb, ret, f, s) == [mem |-> m, b |-> bb, ret |-> ret, fault |-> f, fp |-> s]

\* the number of bytes fgets takes from rest when it may store lim of them:
\* through the first newline, else lim
LineLen(rest, lim) ==
    LET nls == {i \in 1..lim : rest[i] = 10} IN
    IF nls = {} THEN lim ELSE CHOOSE i \in nls : \A j \in nls : i <= j

\* fgets(p + off, n, fp) as glibc does it: NULL for n <= 0, only a terminator
\* for n = 1, NULL and end-of-file when no byte is left, else a line of at most
\* n - 1 bytes; end-of-file is set only when a read runs into the end
fgets(m, p, off, n, s) ==
    IF n <= 0 THEN [mem |-> m, fp |-> s, null |-> TRUE, fault |-> "none"]
    ELSE IF n = 1
    THEN IF ~Valid(m, p, off, 1) THEN [mem |-> m, fp |-> s, null |-> FALSE, fault |-> "ub"]
         ELSE [mem |-> Poke(m, p, off, <<0>>), fp |-> s, null |-> FALSE, fault |-> "none"]
    ELSE IF s.rest = <<>>
    THEN [mem |-> m, fp |-> [s EXCEPT !.eof = TRUE], null |-> TRUE, fault |-> "none"]
    ELSE LET lim  == MIN(n - 1, Len(s.rest))
             k    == LineLen(s.rest, lim)
             line == SubSeq(s.rest, 1, k)
             end  == line[k] # 10 /\ k = Len(s.rest) /\ k < n - 1
             s1   == [rest |-> SubSeq(s.rest, k + 1, Len(s.rest)), eof |-> s.eof \/ end]
         IN  IF ~Valid(m, p, off, k + 1)
             THEN [mem |-> m, fp |-> s1, null |-> FALSE, fault |-> "ub"]
             ELSE [mem |-> Poke(m, p, off, Append(line, 0)), fp |-> s1,
                   null |-> FALSE, fault |-> "none"]

\* strlen(p) from index i on; Indet if the scan leaves the object or meets a
\* byte that was never written before it meets a terminator
RECURSIVE StrlenFrom(_, _, _)
StrlenFrom(m, p, i) ==
    IF ~Valid(m, p, i, 1) THEN Indet
    ELSE LET c == m[p.blk].bytes[p.off + i + 1] IN
         IF c = Indet THEN Indet
         ELSE IF c = 0 THEN i
         ELSE StrlenFrom(m, p, i + 1)

strlen(m, p) == StrlenFrom(m, p, 0)

builder_getline_fixed(m, bb, s) ==
    IF bb.cap = 0 THEN ResF(m, bb, 0 - ENOBUFS, "none", s)
    ELSE LET avail == (bb.cap - bb.len) % SizeMod
             g     == fgets(m, bb.data, bb.len, ToInt(avail), s)
             len1  == strlen(g.mem, bb.data)
         IN  IF g.fault # "none" THEN ResF(m, bb, 0, g.fault, g.fp)
             ELSE IF g.null THEN ResF(g.mem, [bb EXCEPT !.len = 0], 0, "none", g.fp)
             ELSE IF len1 = Indet THEN ResF(g.mem, bb, 0, "ub", g.fp)
             ELSE IF ~(len1 > 0)
             THEN ResF(g.mem, [bb EXCEPT !.len = len1], 0, "assert", g.fp)
             ELSE IF g.mem[bb.data.blk].bytes[bb.data.off + len1] = 10
             THEN ResF(g.mem, [bb EXCEPT !.len = len1 - 1], 0, "none", g.fp)
             ELSE IF g.fp.eof
             THEN ResF(g.mem, [bb EXCEPT !.len = len1], 0, "none", g.fp)
             ELSE ResF(g.mem, [bb EXCEPT !.len = len1], 0 - ENOBUFS, "none", g.fp)

\* while (builder_getline_fixed(builder, fp) < 0) reserve(cap * 2)
\* g: the outcome of the call of builder_getline_fixed that the loop tests
RECURSIVE GetlineLoop(_, _)
GetlineLoop(g, nd) ==
    IF g.fault # "none" \/ g.ret >= 0 THEN [g EXCEPT !.ret = 0]
    ELSE LET r == builder_reserve_context(g.mem, g.b, (g.b.cap * 2) % SizeMod, nd) IN
         IF r.fault # "none" THEN ResF(r.mem, r.b, 0, r.fault, g.fp)
         ELSE GetlineLoop(builder_getline_fixed(r.mem, r.b, g.fp), nd)

builder_getline_context(m, bb, s, nd) ==
    LET r == IF bb.cap = 0 THEN builder_reserve_context(m, bb, 128, nd)
             ELSE Res(m, bb, 0, "none")
    IN  IF r.fault # "none" THEN ResF(r.mem, r.b, 0, r.fault, s)
        ELSE GetlineLoop(builder_getline_fixed(r.mem, r.b, s), nd)

\* fread(data, 1, cap, fp) on a file just opened: min(cap, size) bytes
fread(m, bb, bytes) ==
    LET k == MIN(bb.cap, Len(bytes)) IN
    IF ~Valid(m, bb.data, 0, k) THEN [mem |-> m, fault |-> "ub"]
    ELSE [mem |-> Poke(m, bb.data, 0, SubSeq(bytes, 1, k)), fault |-> "none"]

builder_read_file_fixed(m, bb, file) ==
    IF ~file.found THEN Res(m, bb, 0 - ENOENT, "none")
    ELSE LET st_size == Len(file.bytes)
             r == fread(m, bb, file.bytes)
         IN  IF st_size > bb.cap THEN Res(m, bb, 0 - ENOBUFS, "none")
             ELSE IF r.fault # "none" THEN Res(m, bb, 0, r.fault)
             ELSE Res(r.mem, [bb EXCEPT !.len = st_size], 0, "none")

builder_read_file_context(m, bb, file, nd) ==
    IF ~file.found THEN Res(m, bb, 0, "exit")
    ELSE LET st_size == Len(file.bytes)
             v == builder_reserve_context(m, bb, st_size, nd)
             r == fread(v.mem, v.b, file.bytes)
         IN  IF v.fault # "none" THEN v
             ELSE IF r.fault # "none" THEN Res(v.mem, v.b, 0, r.fault)
             ELSE Res(r.mem, [v.b EXCEPT !.len = st_size], 0, "none")

(***************************************************************************)
(* The builder model: a caller holding one StringBuilder and one stream    *)
(***************************************************************************)
WithFp(r, s) == ResF(r.mem, r.b, r.ret, r.fault, s)

\* the call c made on builder bb in memory m with stream s
Exec(c, m, bb, s, nd) ==
    CASE c.op = "reserve" -> WithFp(builder_reserve_context(m, bb, c.s, nd), s)
      [] c.op = "destroy" -> WithFp(builder_destroy_context(m, bb, nd), s)
      [] c.op = "append" -> WithFp(builder_append_context(m, bb, c.x, nd), s)
      [] c.op = "append_fixed" -> WithFp(builder_append_fixed(m, bb, c.x), s)
      [] c.op = "print" -> WithFp(builder_print_context(m, bb, c.x, nd), s)
      [] c.op = "print_fixed" -> WithFp(builder_print_fixed(m, bb, c.x), s)
      [] c.op = "replace" -> WithFp(builder_replace_context(m, bb, c.x, c.y, nd), s)
      [] c.op = "replace_fixed" -> WithFp(builder_replace_fixed(m, bb, c.x, c.y), s)
      [] c.op = "splice" -> WithFp(builder_splice_context(m, bb, c.s, c.e, c.x, nd), s)
      [] c.op = "splice_fixed" -> WithFp(builder_splice_fixed(m, bb, c.s, c.e, c.x), s)
      [] c.op = "getline" -> builder_getline_context(m, bb, s, nd)
      [] c.op = "getline_fixed" -> builder_getline_fixed(m, bb, s)
      [] c.op = "read_file" ->
            WithFp(builder_read_file_context(m, bb, [found |-> c.found, bytes |-> c.x], nd), s)
      [] c.op = "read_file_fixed" ->
            WithFp(builder_read_file_fixed(m, bb, [found |-> c.found, bytes |-> c.x]), s)
      [] c.op = "substr" ->
            LET r == string_substr(builder_to_string(bb), c.s, c.e)
            IN  ResF(m, bb, r.view, r.fault, s)

\* StringBuilder builder = {0}, or builder_from_fixed(buffer) for an array of
\* n bytes that was never written; the stream is open at its start
InitBuilder ==
    /\ owner = <<>>
    /\ arenas = [a \in ArenaIds |-> ZeroArena]
    /\ regions = {}
    /\ last = NoCall
    /\ held = NullPtr
    /\ ncalls = 0
    /\ call = NoOp
    /\ fault = "none"
    /\ ab = ZeroBuilder
    /\ afault = "none"
    /\ \E t \in Streams : fp = [rest |-> t, eof |-> FALSE]
    /\ \/ mem = <<>> /\ b = ZeroBuilder
       \/ \E n \in FixedSizes :
             /\ mem = <<[st |-> "ext", bytes |-> [i \in 1..n |-> Indet],
                         node |-> ZeroArena, frees |-> 0]>>
             /\ b = [data |-> ToPtr(1), len |-> 0, cap |-> n]

\* the caller has made call c and r is its outcome
Return(c, r) ==
    /\ ncalls' = ncalls + 1
    /\ UNCHANGED arenaVars
    /\ UNCHANGED hookVars
    /\ Len(r.mem) <= MaxBlocks
    /\ mem' = r.mem
    /\ b' = r.b
    /\ fault' = r.fault
    /\ call' = [c EXCEPT !.ret = r.ret]

\* the caller can call while the process runs
Running == fault = "none" /\ ncalls < MaxOps

BuilderReserve(cap, nd) ==
    /\ Running
    /\ \E r \in {builder_reserve_context(mem, b, cap, nd)} :
          Return([NoOp EXCEPT !.op = "reserve", !.s = cap], r)
    /\ fp' = fp

BuilderDestroy(nd) ==
    /\ Running
    /\ \E r \in {builder_destroy_context(mem, b, nd)} :
          Return([NoOp EXCEPT !.op = "destroy"], r)
    /\ fp' = fp

BuilderAppend(string, nd) ==
    /\ Running
    /\ \E r \in {builder_append_context(mem, b, string, nd)} :
          Return([NoOp EXCEPT !.op = "append", !.x = string], r)
    /\ fp' = fp

BuilderAppendFixed(string) ==
    /\ Running
    /\ \E r \in {builder_append_fixed(mem, b, string)} :
          Return([NoOp EXCEPT !.op = "append_fixed", !.x = string], r)
    /\ fp' = fp

BuilderPrint(text, nd) ==
    /\ Running
    /\ \E r \in {builder_print_context(mem, b, text, nd)} :
          Return([NoOp EXCEPT !.op = "print", !.x = text], r)
    /\ fp' = fp

BuilderPrintFixed(text) ==
    /\ Running
    /\ \E r \in {builder_print_fixed(mem, b, text)} :
          Return([NoOp EXCEPT !.op = "print_fixed", !.x = text], r)
    /\ fp' = fp

BuilderReplace(x, y, nd) ==
    /\ Running
    /\ \E r \in {builder_replace_context(mem, b, x, y, nd)} :
          Return([NoOp EXCEPT !.op = "replace", !.x = x, !.y = y], r)
    /\ fp' = fp

BuilderReplaceFixed(x, y) ==
    /\ Running
    /\ \E r \in {builder_replace_fixed(mem, b, x, y)} :
          Return([NoOp EXCEPT !.op = "replace_fixed", !.x = x, !.y = y], r)
    /\ fp' = fp

BuilderSplice(start, end, string, nd) ==
    /\ Running
    /\ \E r \in {builder_splice_context(mem, b, start, end, string, nd)} :
          Return([NoOp EXCEPT !.op = "splice", !.s = start, !.e = end, !.x = string], r)
    /\ fp' = fp

BuilderSpliceFixed(start, end, string) ==
    /\ Running
    /\ \E r \in {builder_splice_fixed(mem, b, start, end, string)} :
          Return([NoOp EXCEPT !.op = "splice_fixed", !.s = start, !.e = end,
                              !.x = string], r)
    /\ fp' = fp

BuilderGetline(nd) ==
    /\ Running
    /\ \E r \in {builder_getline_context(mem, b, fp, nd)} :
          Return([NoOp EXCEPT !.op = "getline"], r) /\ fp' = r.fp

BuilderGetlineFixed ==
    /\ Running
    /\ \E r \in {builder_getline_fixed(mem, b, fp)} :
          Return([NoOp EXCEPT !.op = "getline_fixed"], r) /\ fp' = r.fp

BuilderReadFile(file, nd) ==
    /\ Running
    /\ \E r \in {builder_read_file_context(mem, b, file, nd)} :
          Return([NoOp EXCEPT !.op = "read_file", !.x = file.bytes,
                              !.found = file.found], r)
    /\ fp' = fp

BuilderReadFileFixed(file) ==
    /\ Running
    /\ \E r \in {builder_read_file_fixed(mem, b, file)} :
          Return([NoOp EXCEPT !.op = "read_file_fixed", !.x = file.bytes,
                              !.found = file.found], r)
    /\ fp' = fp

\* string_substr(builder_to_string(builder), start, end)
StringSubstr(start, end) ==
    /\ Running
    /\ \E r \in {string_substr(builder_to_string(b), start, end)} :
          Return([NoOp EXCEPT !.op = "substr", !.s = start, !.e = end],
                 Res(mem, b, r.view, r.fault))
    /\ fp' = fp

\* builder.len = 0: the caller reuses the builder with its buffer
SetLenZero ==
    /\ fault = "none"
    /\ b.len # 0
    /\ b' = [b EXCEPT !.len = 0]
    /\ call' = [NoOp EXCEPT !.op = "reset"]
    /\ UNCHANGED <<mem, fp, fault, ncalls>>
    /\ UNCHANGED arenaVars
    /\ UNCHANGED hookVars

NextBuilder ==
    \/ \E c \in ReserveCaps, nd \in DefaultHook : BuilderReserve(c, nd)
    \/ \E nd \in DefaultHook : BuilderDestroy(nd)
    \/ \E v \in Strs, nd \in DefaultHook : BuilderAppend(v, nd)
    \/ \E v \in Strs : BuilderAppendFixed(v)
    \/ \E v \in Strs, nd \in DefaultHook : BuilderPrint(v, nd)
    \/ \E v \in Strs : BuilderPrintFixed(v)
    \/ \E x \in Strs, y \in Strs, nd \in DefaultHook : BuilderReplace(x, y, nd)
    \/ \E x \in Strs, y \in Strs : BuilderReplaceFixed(x, y)
    \/ \E i \in Idx, j \in Idx, v \in Strs, nd \in DefaultHook : BuilderSplice(i, j, v, nd)
    \/ \E i \in Idx, j \in Idx, v \in Strs : BuilderSpliceFixed(i, j, v)
    \/ \E nd \in DefaultHook : BuilderGetline(nd)
    \/ BuilderGetlineFixed
    \/ \E f \in Files, nd \in DefaultHook : BuilderReadFile(f, nd)
    \/ \E f \in Files : BuilderReadFileFixed(f)
    \/ \E i \in Idx, j \in Idx : StringSubstr(i, j)
    \/ SetLenZero

SpecBuilder == InitBuilder /\ [][NextBuilder]_vars

(***************************************************************************)
(* The getline model: a caller reading lines into a builder it owns        *)
(***************************************************************************)
\* StringBuilder builder = {0}; and a stream just opened
InitGetline ==
    /\ owner = <<>>
    /\ arenas = [a \in ArenaIds |-> ZeroArena]
    /\ regions = {}
    /\ last = NoCall
    /\ held = NullPtr
    /\ ncalls = 0
    /\ call = NoOp
    /\ fault = "none"
    /\ ab = ZeroBuilder
    /\ afault = "none"
    /\ mem = <<>>
    /\ b = ZeroBuilder
    /\ \E t \in LineStreams : fp = [rest |-> t, eof |-> FALSE]

NextGetline ==
    \/ \E c \in LineCaps, nd \in DefaultHook : BuilderReserve(c, nd)
    \/ \E nd \in DefaultHook : BuilderGetline(nd)
    \/ SetLenZero

SpecGetline == InitGetline /\ [][NextGetline]_vars

(***************************************************************************)
(* Properties of the builder                                               *)
(***************************************************************************)
\* the step is a call of the library
IsCall == ncalls' # ncalls

\* the operations that store into the builder
MutOps == {"append", "append_fixed", "print", "print_fixed", "replace", "replace_fixed",
           "splice", "splice_fixed", "getline", "getline_fixed", "read_file",
           "read_file_fixed"}
FixedOps == {"append_fixed", "print_fixed", "replace_fixed", "splice_fixed"}

\* the byte at p[i], Indet where p[i] is no byte of an object
ByteAt(m, p, i) == IF Valid(m, p, i, 1) THEN m[p.blk].bytes[p.off + i + 1] ELSE Indet

\* the first n bytes at p, as far as they are bytes of an object
Prefix(m, p, n) == [i \in 1..n |-> ByteAt(m, p, i - 1)]

\* the storage of the builder is an external array / a block of the allocator
Fixed(m, bb) == bb.data.blk # 0 /\ m[bb.data.blk].st = "ext"
Owned(m, bb) == bb.data.blk # 0 /\ m[bb.data.blk].st = "live"

\* x occurs in the builder
Occurs(m, bb, x) ==
    /\ x # <<>>
    /\ string_find(m, bb.data, bb.len, x) # bb.len
    /\ string_find(m, bb.data, bb.len, x) # Indet

\* the length of the result of call c on builder bb, len where the call has
\* no result to store
ResultLen(c, m, bb) ==
    CASE c.op \in {"append", "append_fixed", "print", "print_fixed"} -> bb.len + Len(c.x)
      [] c.op \in {"replace", "replace_fixed"} ->
            IF Occurs(m, bb, c.x) THEN bb.len - Len(c.x) + Len(c.y) ELSE bb.len
      [] c.op \in {"splice", "splice_fixed"} ->
            IF SpliceAsserts(bb, SpliceIndex(bb, c.s), SpliceIndex(bb, c.e))
            THEN bb.len - (SpliceIndex(bb, c.e) - SpliceIndex(bb, c.s)) + Len(c.x)
            ELSE bb.len
      [] c.op \in {"read_file", "read_file_fixed"} ->
            IF c.found THEN Len(c.x) ELSE bb.len
      [] OTHER -> bb.len

\* C1: after every mutating builder operation that completes successfully
\* (it returns, with 0 where it returns a status, and a replace found x), the
\* builder has storage, len <= cap - 1 and the byte at data[len] is 0.
C1_Step ==
    (/\ IsCall
     /\ call'.op \in MutOps
     /\ fault' = "none"
     /\ call'.ret = 0
     /\ call'.op = "replace" => Occurs(mem, b, call'.x)) =>
        /\ b'.len <= b'.cap - 1
        /\ ByteAt(mem', b'.data, b'.len) = 0

C1_NulTerminated == [][C1_Step]_vars

\* C7: a call on a builder over an external array whose result with its
\* terminator exceeds the array moves the builder to storage of its own, with
\* the bytes it held preserved and the array untouched; no call moves a builder
\* from storage of its own to an external array.
C7_Step ==
    IsCall =>
        /\ (Fixed(mem, b) /\ ResultLen(call', mem, b) + 1 > b.cap) =>
              /\ fault' = "none"
              /\ Owned(mem', b')
              /\ Prefix(mem', b'.data, b.len) = Prefix(mem, b.data, b.len)
              /\ mem'[b.data.blk].bytes = mem[b.data.blk].bytes
        /\ Owned(mem, b) => ~Fixed(mem', b')

C7_FixedToOwned == [][C7_Step]_vars

\* C9: builder_destroy on a builder with storage of its own releases the
\* storage and leaves the zero value; on a builder over an external array it
\* only sets len to 0, and the array is not handed to the reallocation hook.
C9_Step ==
    (IsCall /\ call'.op = "destroy") =>
        /\ Owned(mem, b) =>
              /\ fault' = "none"
              /\ mem'[b.data.blk].st = "freed"
              /\ b' = ZeroBuilder
        /\ Fixed(mem, b) =>
              /\ fault' = "none"
              /\ b' = [b EXCEPT !.len = 0]
              /\ mem'[b.data.blk] = mem[b.data.blk]

C9_DestroyByStorage == [][C9_Step]_vars

\* C8: every fixed-capacity operation (append, print, replace, splice) whose
\* result plus terminator does not fit in cap returns a negative value and
\* leaves len and the first len bytes of the builder as they were.
C8_UniformStep ==
    (/\ IsCall
     /\ call'.op \in FixedOps
     /\ ResultLen(call', mem, b) + 1 > b.cap
     /\ call'.op = "splice_fixed" =>
           SpliceAsserts(b, SpliceIndex(b, call'.s), SpliceIndex(b, call'.e))) =>
        /\ fault' = "none"
        /\ call'.ret < 0
        /\ b'.len = b.len
        /\ Prefix(mem', b'.data, b.len) = Prefix(mem, b.data, b.len)

C8_Uniform == [][C8_UniformStep]_vars

\* the outcome r of a call agrees with the state after the step, but for the
\* addresses of the blocks
SameOutcome(r) ==
    /\ r.ret = call'.ret
    /\ r.fault = fault'
    /\ r.fp = fp'
    /\ r.b.len = b'.len
    /\ r.b.cap = b'.cap
    /\ (r.b.data = NullPtr) = (b'.data = NullPtr)
    /\ r.b.data # NullPtr =>
          /\ r.mem[r.b.data.blk].st = mem'[b'.data.blk].st
          /\ r.mem[r.b.data.blk].bytes = mem'[b'.data.blk].bytes

\* C10: a builder_destroy that returns leaves the zero value; on a zero-valued
\* builder it returns and releases nothing, no block is ever released twice,
\* and the call made right after a destroy has the outcome it has on a fresh
\* zero-valued builder.
C10_Step ==
    IsCall =>
        /\ (call'.op = "destroy" /\ fault' = "none") => b' = ZeroBuilder
        /\ (call'.op = "destroy" /\ b = ZeroBuilder) =>
              /\ fault' = "none"
              /\ \A i \in 1..Len(mem) : mem[i].st # "freed" => mem'[i] = mem[i]
        /\ call'.op = "destroy" => \A i \in 1..Len(mem') : mem'[i].frees <= 1
        /\ call.op = "destroy" =>
              \E nd \in DefaultHook : SameOutcome(Exec(call', <<>>, ZeroBuilder, fp, nd))

C10_DestroyIdempotent == [][C10_Step]_vars

\* a builder that owned a block has been destroyed: the block is released once
C10_Witness ==
    /\ call.op = "destroy"
    /\ fault = "none"
    /\ b = ZeroBuilder
    /\ \E i \in 1..Len(mem) : mem[i].st = "freed" /\ mem[i].frees = 1

\* C11: in every state that calls on a builder reach, calls that fail or
\* truncate included, the builder has len <= cap.
C11_LenLeCap == b.len <= b.cap

\* C12: a builder_append_context(b, v) that returns leaves the old contents
\* followed by the bytes of v, len = old len + |v|, and cap as it was when it
\* held old len + |v| + 1, else max(2 * old cap, old len + |v| + 1).
C12_Step ==
    (IsCall /\ call'.op = "append" /\ fault' = "none") =>
        /\ b'.len = b.len + Len(call'.x)
        /\ Prefix(mem', b'.data, b'.len) = Prefix(mem, b.data, b.len) \o call'.x
        /\ b'.cap = IF b.cap >= b.len + Len(call'.x) + 1 THEN b.cap
                    ELSE MAX(2 * b.cap, b.len + Len(call'.x) + 1)

C12_Append == [][C12_Step]_vars

\* an append to a builder that held bytes has doubled the capacity 2 to 4
C12_Witness ==
    /\ call.op = "append"
    /\ fault = "none"
    /\ call.x # <<>>
    /\ Owned(mem, b)
    /\ b.len = 2
    /\ b.cap = 4

\* the two outcomes are builders with the same len and the same len bytes
SameContents(r1, r2) ==
    /\ r1.b.len = r2.b.len
    /\ Prefix(r1.mem, r1.b.data, r1.b.len) = Prefix(r2.mem, r2.b.data, r2.b.len)

\* C13: after an append of A, an append of B leaves the same bytes and the
\* same len as the single append of AB leaves on the builder A was appended
\* to, for every B and every choice of the allocator.
C13_Step ==
    (IsCall /\ call'.op = "append" /\ fault' = "none") =>
        \A B \in Strs, nd1 \in DefaultHook, nd2 \in DefaultHook :
            \A r1 \in {builder_append_context(mem', b', B, nd1)} :
            \A r2 \in {builder_append_context(mem, b, call'.x \o B, nd2)} :
                (r1.fault = "none" /\ r2.fault = "none") => SameContents(r1, r2)

C13_AppendTwice == [][C13_Step]_vars

\* A has been appended to a builder that held bytes, and the append of some B
\* that follows has to grow the buffer
C13_Witness ==
    /\ call.op = "append"
    /\ fault = "none"
    /\ call.x # <<>>
    /\ b.len > Len(call.x)
    /\ \E B \in Strs \ {<<>>} :
          \E nd \in DefaultHook : \E r1 \in {builder_append_context(mem, b, B, nd)} :
             /\ r1.fault = "none"
             /\ r1.b.cap > b.cap

\* C14: a builder_reserve_context(b, c) that returns changes nothing when
\* cap >= c and otherwise leaves cap = c; in both cases len and the first len
\* bytes are as they were.
C14_Step ==
    (IsCall /\ call'.op = "reserve" /\ fault' = "none") =>
        /\ b.cap >= call'.s => (b' = b /\ mem' = mem)
        /\ b.cap < call'.s => b'.cap = call'.s
        /\ b'.cap >= call'.s
        /\ b'.len = b.len
        /\ Prefix(mem', b'.data, b.len) = Prefix(mem, b.data, b.len)

C14_Reserve == [][C14_Step]_vars

\* a reserve has grown a builder that held bytes, and the block has moved
C14_Witness ==
    /\ call.op = "reserve"
    /\ fault = "none"
    /\ b.len > 0
    /\ b.len < b.cap
    /\ b.cap = call.s
    /\ Owned(mem, b)
    /\ \E i \in 1..Len(mem) : mem[i].st = "freed"
    /\ ByteAt(mem, b.data, 0) = 97

ReplaceOps == {"replace", "replace_fixed"}

\* the contents of the builder
Contents(m, bb) == Prefix(m, bb.data, bb.len)

\* C15: when the non-empty x occurs in the builder, first at index i, a
\* builder_replace that returns (the fixed variant when the result with its
\* terminator fits in cap) leaves b[0:i] + y + b[i+|x|:] with
\* len = old len - |x| + |y|, and the fixed variant returns 0.
C15_Step ==
    (/\ IsCall
     /\ call'.op \in ReplaceOps
     /\ fault' = "none"
     /\ Occurs(mem, b, call'.x)
     /\ call'.op = "replace_fixed" => ResultLen(call', mem, b) + 1 <= b.cap) =>
        \A i \in {string_find(mem, b.data, b.len, call'.x)} :
            /\ b'.len = b.len - Len(call'.x) + Len(call'.y)
            /\ Contents(mem', b') =
                  SubSeq(Contents(mem, b), 1, i) \o call'.y
                     \o SubSeq(Contents(mem, b), i + Len(call'.x) + 1, b.len)
            /\ call'.ret = 0

C15_ReplaceFirst == [][C15_Step]_vars

\* "b\naba" has become "b\nbabba": the first "a" is replaced by the longer
\* "bab" and the second is in its place
C15_Witness ==
    /\ call.op = "replace"
    /\ fault = "none"
    /\ call.x = <<97>>
    /\ call.y = <<98, 97, 98>>
    /\ Contents(mem, b) = <<98, 10, 98, 97, 98, 98, 97>>

\* C16: when x is empty or does not occur in the builder, builder_replace
\* returns (the fixed variant with a negative value) and leaves the builder's
\* contents, len, cap and data pointer as they were, and the allocator is not
\* called: no block is created, resized or released.
C16_Step ==
    (IsCall /\ call'.op \in ReplaceOps /\ b.len <= b.cap /\ ~Occurs(mem, b, call'.x)) =>
        /\ fault' = "none"
        /\ b' = b
        /\ mem' = mem
        /\ call'.op = "replace_fixed" => call'.ret < 0

C16_ReplaceAbsent == [][C16_Step]_vars

SpliceOps == {"splice", "splice_fixed"}

\* C17: for indices that normalize to 0 <= s <= e <= len, a builder_splice
\* that returns (the fixed variant when the result with its terminator fits in
\* cap) leaves b[0:s] + v + b[e:] with len = old len - (e - s) + |v|; so
\* splice(k, k, "") leaves the contents and splice(0, len, y) leaves y.
C17_Step ==
    (/\ IsCall
     /\ call'.op \in SpliceOps
     /\ fault' = "none"
     /\ SpliceAsserts(b, SpliceIndex(b, call'.s), SpliceIndex(b, call'.e))
     /\ call'.op = "splice_fixed" => ResultLen(call', mem, b) + 1 <= b.cap) =>
        \A s \in {IF call'.s < 0 THEN call'.s + b.len ELSE call'.s} :
        \A e \in {IF call'.e < 0 THEN call'.e + b.len ELSE call'.e} :
            /\ b'.len = b.len - (e - s) + Len(call'.x)
            /\ Contents(mem', b') =
                  SubSeq(Contents(mem, b), 1, s) \o call'.x
                     \o SubSeq(Contents(mem, b), e + 1, b.len)
            /\ (s = e /\ call'.x = <<>>) =>
                  (b'.len = b.len /\ Contents(mem', b') = Contents(mem, b))
            /\ (s = 0 /\ e = b.len) => Contents(mem', b') = call'.x
            /\ call'.ret = 0

C17_Splice == [][C17_Step]_vars

\* splice(1, -1, "bab") on "bab": the negative end is index 2, the "a" is
\* removed and "bab" is in its place
C17_Witness ==
    /\ call.op = "splice"
    /\ fault = "none"
    /\ call.s = 1
    /\ call.e = 0 - 1
    /\ call.x = <<98, 97, 98>>
    /\ Contents(mem, b) = <<98, 98, 97, 98, 98>>

\* an index as the callers of substr and splice mean it: a negative one counts
\* from the end
Norm(i, len) == IF i < 0 THEN i + len ELSE i

\* C18: a string_substr, builder_splice_context or builder_splice_fixed whose
\* (start, end) does not normalize to 0 <= start <= end <= len ends in the
\* assertion failure, with the builder, every byte and every block as they
\* were; it returns nothing.
C18_Step ==
    (/\ IsCall
     /\ call'.op \in SpliceOps \cup {"substr"}
     /\ ~(/\ 0 <= Norm(call'.s, b.len)
          /\ Norm(call'.s, b.len) <= Norm(call'.e, b.len)
          /\ Norm(call'.e, b.len) <= b.len)) =>
        /\ fault' = "assert"
        /\ b' = b
        /\ mem' = mem

C18_BadIndexAsserts == [][C18_Step]_vars

\* a splice of "bab" into a builder of 1 byte with end = 2 has ended in the
\* assertion failure
C18_Witness ==
    /\ call.op \in SpliceOps
    /\ fault = "assert"
    /\ call.s = 0
    /\ call.e = 2
    /\ call.x = <<98, 97, 98>>
    /\ b.len = 1
    /\ b.cap = 2

(***************************************************************************)
(* The String model: a caller holding two string literals                  *)
(***************************************************************************)
\* the array of a string literal: its bytes and a terminator
Literal(t) == [st |-> "ext", bytes |-> Append(t, 0), node |-> ZeroArena, frees |-> 0]

\* str_lit(S) for the literal in block i
str_lit(m, i) == String(ToPtr(i), Len(m[i].bytes) - 1)

\* the Strings the caller passes: (String) {0} and the two literals
StringArgs == {String(NullPtr, 0), str_lit(mem, 1), str_lit(mem, 2)}

InitString ==
    /\ owner = <<>>
    /\ arenas = [a \in ArenaIds |-> ZeroArena]
    /\ regions = {}
    /\ last = NoCall
    /\ held = NullPtr
    /\ ncalls = 0
    /\ call = NoOp
    /\ fault = "none"
    /\ fp = NoStream
    /\ b = ZeroBuilder
    /\ ab = ZeroBuilder
    /\ afault = "none"
    /\ \E t1 \in StrLits, t2 \in StrLits : mem = <<Literal(t1), Literal(t2)>>

\* the caller has made the String call c, which ended as f
ReturnString(c, f) ==
    /\ call' = c
    /\ fault' = f
    /\ UNCHANGED <<mem, b, fp, ncalls>>
    /\ UNCHANGED arenaVars
    /\ UNCHANGED hookVars

SubstrCall(string, start, end) ==
    /\ fault = "none"
    /\ \E r \in {string_substr(string, start, end)} :
          ReturnString([NoOp EXCEPT !.op = "substr", !.x = string, !.s = start,
                                    !.e = end, !.ret = r.view], r.fault)

CompareCall(s1, s2, diff) ==
    /\ fault = "none"
    /\ \E r \in {string_compare(mem, s1, s2, diff)} :
          ReturnString([NoOp EXCEPT !.op = "compare", !.x = s1, !.y = s2, !.ret = r],
                       "none")

\* string_find(haystack, needle)
FindCall(haystack, needle) ==
    /\ fault = "none"
    /\ \E r \in {string_find(mem, haystack.data, haystack.len,
                              [i \in 1..needle.len |-> ByteOf(mem, needle.data, i - 1)])} :
          ReturnString([NoOp EXCEPT !.op = "find", !.x = haystack, !.y = needle,
                                    !.ret = r], "none")

\* the caller's cursor for the next string_tokenize(string, delim, &save):
\* the value the call before left in save when it was a call on the same
\* string and delimiters, else that of a new size_t save = 0
Cursor(string, delim) ==
    IF call.op = "tokenize" /\ call.x = string /\ call.y = delim THEN call.s ELSE 0

\* string_tokenize(string, delim, &save)
TokenizeCall(string, delim) ==
    /\ fault = "none"
    /\ \E r \in {string_tokenize(mem, string, delim, Cursor(string, delim))} :
          ReturnString([NoOp EXCEPT !.op = "tokenize", !.x = string, !.y = delim,
                                    !.e = Cursor(string, delim), !.s = r.saveptr,
                                    !.ret = r.view], "none")

NextString ==
    \/ \E v \in StringArgs, i \in StrIdx, j \in StrIdx : SubstrCall(v, i, j)
    \/ \E v \in StringArgs, w \in StringArgs, diff \in BOOLEAN : CompareCall(v, w, diff)
    \/ \E v \in StringArgs, w \in StringArgs : FindCall(v, w)
    \/ \E v \in StringArgs, w \in StringArgs : TokenizeCall(v, w)

SpecString == InitString /\ [][NextString]_vars

(***************************************************************************)
(* string_parse_int: a caller holding one string literal                   *)
(***************************************************************************)
\* the widths of int and long, scaled down so that texts of MaxDigits bytes
\* reach both limits; long is the wider type
IntBits == 4
LongBits == 7
MaxDigits == 3

INT_MAX == 2 ^ (IntBits - 1) - 1
INT_MIN == 0 - 2 ^ (IntBits - 1)
LONG_MAX == 2 ^ (LongBits - 1) - 1
LONG_MIN == 0 - 2 ^ (LongBits - 1)

\* enum { STRTOL_SUCCESS, STRTOL_INVALID, STRTOL_EXTRA, STRTOL_RANGE, ... }
STRTOL_SUCCESS == 0
STRTOL_INVALID == 1
STRTOL_EXTRA == 2
STRTOL_RANGE == 3
STRTOL_MAX == 4
STRTOL_MIN == 5

\* char tmp[32]
SIZEOF_TMP == 32

\* the bytes of the texts: ' ', '+', '-', '.', '1', '9'
ParseBytes == {32, 43, 45, 46, 49, 57}

RECURSIVE TextsOf(_)
TextsOf(n) ==
    IF n = 0 THEN {<<>>}
    ELSE TextsOf(n - 1) \cup
         {Append(t, c) : t \in {u \in TextsOf(n - 1) : Len(u) = n - 1}, c \in ParseBytes}

\* the literals the caller parses: every text of at most MaxDigits bytes,
\* and one of SIZEOF_TMP digits, which does not fit tmp with its terminator
ParseTexts == TextsOf(MaxDigits) \cup {[i \in 1..SIZEOF_TMP |-> 49]}

\* isspace in the "C" locale: ' ', \t, \n, \v, \f, \r
isspace(c) == c = 32 \/ c \in 9..13

isdigit(c) == c \in 48..57

\* the number of white-space bytes of t from index i (0-based) on, up to the
\* first byte that is not white space
RECURSIVE SpaceRun(_, _)
SpaceRun(t, i) ==
    IF i < Len(t) /\ isspace(t[i + 1]) THEN 1 + SpaceRun(t, i + 1) ELSE 0

\* the number of digits of t from index i (0-based) on, up to the first byte
\* that is not a digit
RECURSIVE DigitRun(_, _)
DigitRun(t, i) ==
    IF i < Len(t) /\ isdigit(t[i + 1]) THEN 1 + DigitRun(t, i + 1) ELSE 0

\* the value of the decimal digits t[i+1..i+n] added to acc, saturating
\* above lim (the accumulation strtol does without overflowing long)
RECURSIVE Accumulate(_, _, _, _, _)
Accumulate(t, i, n, acc, lim) ==
    IF n = 0 THEN acc
    ELSE Accumulate(t, i + 1, n - 1, MIN(acc * 10 + (t[i + 1] - 48), lim), lim)

\* strtol(nptr, &end, 0) for the nul-terminated text t at nptr, a text whose
\* digits do not start with '0' (so base 0 reads it as decimal): white space
\* is skipped, then an optional sign, then the digits. sl: the value, end:
\* the offset of *end from nptr, erange: errno has been set to ERANGE.
\* Without digits nothing is converted: 0 is returned and end = nptr.
strtol(t) ==
    LET ws   == SpaceRun(t, 0)
        sgn  == IF ws < Len(t) /\ t[ws + 1] \in {43, 45} THEN 1 ELSE 0
        neg  == sgn = 1 /\ t[ws + 1] = 45
        nd   == DigitRun(t, ws + sgn)
        mag  == Accumulate(t, ws + sgn, nd, 0, LONG_MAX + 2)
        val  == IF neg THEN 0 - mag ELSE mag
    IN  IF nd = 0 THEN [sl |-> 0, end |-> 0, erange |-> FALSE]
        ELSE IF val > LONG_MAX THEN [sl |-> LONG_MAX, end |-> ws + sgn + nd, erange |-> TRUE]
        ELSE IF val < LONG_MIN THEN [sl |-> LONG_MIN, end |-> ws + sgn + nd, erange |-> TRUE]
        ELSE [sl |-> val, end |-> ws + sgn + nd, erange |-> FALSE]

\* the outcome of string_parse_int: the return value, and whether and with
\* what *result has been written
ResP(ret, written, result) == [ret |-> ret, written |-> written, result |-> result]

\* string_parse_int(string, &result): the text is copied to the local array
\* tmp (a new block of m), terminated there and handed to strtol
string_parse_int(m, string) ==
    LET tmp == Len(m) + 1
        m1  == Append(m, [st |-> "ext", bytes |-> [i \in 1..SIZEOF_TMP |-> Indet],
                          node |-> ZeroArena, frees |-> 0])
        builder == [data |-> ToPtr(tmp), len |-> 0, cap |-> SIZEOF_TMP]
        a   == builder_append_fixed(m1, builder,
                   [i \in 1..string.len |-> ByteOf(m, string.data, i - 1)])
        t   == BytesAt(a.mem, a.b.data, strlen(a.mem, a.b.data))
        r   == strtol(t)
        end == [blk |-> tmp, off |-> r.end]
    IN  IF a.ret < 0 THEN ResP(STRTOL_INVALID, FALSE, Indet)
        ELSE IF end = string.data THEN ResP(STRTOL_INVALID, FALSE, Indet)
        ELSE IF 0 # ByteOf(a.mem, end, 0) THEN ResP(STRTOL_EXTRA, FALSE, Indet)
        ELSE IF LONG_MIN = r.sl /\ r.erange THEN ResP(STRTOL_RANGE, FALSE, Indet)
        ELSE IF LONG_MAX = r.sl /\ r.erange THEN ResP(STRTOL_RANGE, FALSE, Indet)
        ELSE IF r.sl > INT_MAX THEN ResP(STRTOL_MAX, FALSE, Indet)
        ELSE IF r.sl < INT_MIN THEN ResP(STRTOL_MIN, FALSE, Indet)
        ELSE ResP(0, TRUE, r.sl)

\* the caller holds the literal in block 1
InitParse ==
    /\ owner = <<>>
    /\ arenas = [a \in ArenaIds |-> ZeroArena]
    /\ regions = {}
    /\ last = NoCall
    /\ held = NullPtr
    /\ ncalls = 0
    /\ call = NoOp
    /\ fault = "none"
    /\ fp = NoStream
    /\ b = ZeroBuilder
    /\ ab = ZeroBuilder
    /\ afault = "none"
    /\ \E t \in ParseTexts : mem = <<Literal(t)>>

\* int result; string_parse_int(string, &result): found records whether
\* result has been written, s its value
ParseIntCall(string) ==
    /\ fault = "none"
    /\ \E r \in {string_parse_int(mem, string)} :
          ReturnString([NoOp EXCEPT !.op = "parse_int", !.x = string, !.ret = r.ret,
                                    !.found = r.written, !.s = r.result], "none")

\* the views the caller parses: (String) {0}, the literal, and the literal
\* without its first or its last byte
ParseArgs ==
    LET s == str_lit(mem, 1) IN
    {String(NullPtr, 0), s}
      \cup (IF s.len > 0
            THEN {String([s.data EXCEPT !.off = 1], s.len - 1), String(s.data, s.len - 1)}
            ELSE {})

NextParse == \E v \in ParseArgs : ParseIntCall(v)

SpecParse == InitParse /\ [][NextParse]_vars

(***************************************************************************)
(* Two builds of the same calls: PMK_REALLOC as realloc, and as            *)
(* arena_realloc_into on the caller's Arena                                *)
(***************************************************************************)
\* Arena arena = {0}; StringBuilder builder = {0}; in both builds; the Arena
\* variable is block 1
InitHook ==
    /\ owner = <<>>
    /\ arenas = [a \in ArenaIds |-> ZeroArena]
    /\ regions = {}
    /\ last = NoCall
    /\ held = NullPtr
    /\ ncalls = 0
    /\ call = NoOp
    /\ fault = "none"
    /\ fp = NoStream
    /\ b = ZeroBuilder
    /\ ab = ZeroBuilder
    /\ afault = "none"
    /\ mem = <<[st |-> "ext", bytes |-> <<>>, node |-> ZeroArena, frees |-> 0]>>

\* both builds run while neither process has ended
BothRunning == fault = "none" /\ afault = "none" /\ ncalls < MaxHookOps

\* both builds have made call c: r is its outcome with realloc, ra with the
\* arena
ReturnBoth(c, r, ra) ==
    /\ ncalls' = ncalls + 1
    /\ Len(ra.mem) <= MaxBlocks + 2
    /\ mem' = ra.mem
    /\ b' = r.b
    /\ fault' = r.fault
    /\ ab' = ra.b
    /\ afault' = ra.fault
    /\ call' = c
    /\ fp' = fp
    /\ UNCHANGED arenaVars

HookReserve(cap, nd) ==
    /\ BothRunning
    /\ \E r \in {builder_reserve_context(mem, b, cap, nd)} :
       \E ra \in {builder_reserve_context(r.mem, ab, cap, ArenaContext(1))} :
          ReturnBoth([NoOp EXCEPT !.op = "reserve", !.s = cap], r, ra)

HookAppend(string, nd) ==
    /\ BothRunning
    /\ \E r \in {builder_append_context(mem, b, string, nd)} :
       \E ra \in {builder_append_context(r.mem, ab, string, ArenaContext(1))} :
          ReturnBoth([NoOp EXCEPT !.op = "append", !.x = string], r, ra)

HookReplace(x, y, nd) ==
    /\ BothRunning
    /\ \E r \in {builder_replace_context(mem, b, x, y, nd)} :
       \E ra \in {builder_replace_context(r.mem, ab, x, y, ArenaContext(1))} :
          ReturnBoth([NoOp EXCEPT !.op = "replace", !.x = x, !.y = y], r, ra)

HookSplice(start, end, string, nd) ==
    /\ BothRunning
    /\ \E r \in {builder_splice_context(mem, b, start, end, string, nd)} :
       \E ra \in {builder_splice_context(r.mem, ab, start, end, string, ArenaContext(1))} :
          ReturnBoth([NoOp EXCEPT !.op = "splice", !.s = start, !.e = end,
                                  !.x = string], r, ra)

NextHook ==
    \/ \E c \in ReserveCaps, nd \in DefaultHook : HookReserve(c, nd)
    \/ \E v \in Strs, nd \in DefaultHook : HookAppend(v, nd)
    \/ \E x \in Strs, y \in Strs, nd \in DefaultHook : HookReplace(x, y, nd)
    \/ \E i \in Idx, j \in Idx, v \in Strs, nd \in DefaultHook : HookSplice(i, j, v, nd)

SpecHook == InitHook /\ [][NextHook]_vars

(***************************************************************************)
(* Properties of the String functions                                      *)
(***************************************************************************)
\* the bytes of a String
Bytes(m, string) == [i \in 1..string.len |-> ByteOf(m, string.data, i - 1)]

\* C19: string_substr(s, 0, len(s)) returns the data pointer and the bytes of
\* s; a call whose negative indices are at most len(s) in size, so
\* string_substr(s, -k, -1) for 1 <= k <= len(s), has the outcome of the call
\* with len(s) added to them.
C19_Step ==
    call'.op = "substr" =>
        /\ (call'.s = 0 /\ call'.e = call'.x.len) =>
              /\ fault' = "none"
              /\ call'.ret.data = call'.x.data
              /\ Bytes(mem', call'.ret) = Bytes(mem, call'.x)
        /\ \A k \in 1..call'.x.len :
              (call'.s = 0 - k /\ call'.e = 0 - 1) =>
                 /\ fault' = "none"
                 /\ call'.ret = String([call'.x.data EXCEPT !.off = @ + call'.x.len - k],
                                       k - 1)
        /\ (call'.s >= 0 - call'.x.len /\ call'.e >= 0 - call'.x.len) =>
              \A r \in {string_substr(call'.x, Norm(call'.s, call'.x.len),
                                       Norm(call'.e, call'.x.len))} :
                 r.fault = fault' /\ r.view = call'.ret

C19_Substr == [][C19_Step]_vars

\* string_substr("aab", -2, -1) has returned the view of "a" at index 1
C19_Witness ==
    /\ call.op = "substr"
    /\ fault = "none"
    /\ call.s = 0 - 2
    /\ call.e = 0 - 1
    /\ Bytes(mem, call.x) = <<97, 97, 98>>
    /\ call.ret = String([call.x.data EXCEPT !.off = 1], 1)

Sign(n) == IF n < 0 THEN 0 - 1 ELSE IF n > 0 THEN 1 ELSE 0

\* s1 is a strict prefix of s2
StrictPrefix(m, s1, s2) ==
    /\ s1.len < s2.len
    /\ Bytes(m, s1) = SubSeq(Bytes(m, s2), 1, s1.len)

\* C20: string_compare(a, b) is 0 exactly when string_equal(a, b) is true, its
\* sign is the opposite of the sign of string_compare(b, a), and it is
\* negative when a is a strict prefix of b.
C20_Step ==
    call'.op = "compare" =>
        /\ (call'.ret = 0) <=> (string_equal(mem, call'.x, call'.y) # 0)
        /\ \A diff \in BOOLEAN :
              Sign(string_compare(mem, call'.y, call'.x, diff)) = 0 - Sign(call'.ret)
        /\ StrictPrefix(mem, call'.x, call'.y) => call'.ret < 0

C20_Compare == [][C20_Step]_vars

\* string_compare("aa", "aab") has returned a negative value
C20_Witness ==
    /\ call.op = "compare"
    /\ call.ret < 0
    /\ Bytes(mem, call.x) = <<97, 97>>
    /\ Bytes(mem, call.y) = <<97, 97, 98>>

\* the indices at which n occurs in h
Occurrences(h, n) == {i \in 0..(Len(h) - Len(n)) : SubSeq(h, i + 1, i + Len(n)) = n}

\* C21 (as stated): string_find(h, n) is the smallest index at which n occurs
\* in h when there is one, it is len(h) if and only if there is none, and it
\* is 0 for the empty n.
C21_FindIff ==
    [][call'.op = "find" =>
          \A occ \in {Occurrences(Bytes(mem, call'.x), Bytes(mem, call'.y))} :
             /\ occ # {} => (call'.ret \in occ /\ \A j \in occ : call'.ret <= j)
             /\ (call'.ret = call'.x.len) <=> (occ = {})
             /\ call'.y.len = 0 => call'.ret = 0]_vars

\* C21: string_find(h, n) is the smallest index at which n occurs in h when
\* there is one and len(h) when there is none; it is 0 for the empty n, and it
\* is len(h) with an occurrence only when h and n are both empty.
C21_Step ==
    call'.op = "find" =>
        \A occ \in {Occurrences(Bytes(mem, call'.x), Bytes(mem, call'.y))} :
            /\ occ # {} => (call'.ret \in occ /\ \A j \in occ : call'.ret <= j)
            /\ occ = {} => call'.ret = call'.x.len
            /\ (call'.ret = call'.x.len /\ occ # {}) =>
                  (call'.x.len = 0 /\ call'.y.len = 0)
            /\ call'.y.len = 0 => call'.ret = 0

C21_Find == [][C21_Step]_vars

\* string_find("aab", "a") has returned 0, the first of two occurrences
C21_Witness ==
    /\ call.op = "find"
    /\ Bytes(mem, call.x) = <<97, 97, 98>>
    /\ Bytes(mem, call.y) = <<97>>
    /\ call.ret = 0

\* the byte at index i of the string of the call is a delimiter of the call
IsDelim(m, c, i) == InSet(m, c.x, i, c.y)

\* C22: a string_tokenize call with the cursor at c (0 at first, then the
\* value the call before left) returns the first maximal run of non-delimiter
\* bytes at or after c and leaves the cursor at its end, or returns a
\* zero-length view and leaves the cursor at len(string) when there is none;
\* the cursor never decreases and never exceeds len(string).
C22_Step ==
    call'.op = "tokenize" =>
        \A c \in {call'.e}, c1 \in {call'.s}, len \in {call'.x.len} :
            /\ c <= c1
            /\ c1 <= len
            /\ c = IF call.op = "tokenize" /\ call.x = call'.x /\ call.y = call'.y
                   THEN call.s ELSE 0
            /\ call'.ret.data = [call'.x.data EXCEPT !.off = @ + c1 - call'.ret.len]
            /\ \A i \in c..(c1 - call'.ret.len - 1) : IsDelim(mem, call', i)
            /\ \A i \in (c1 - call'.ret.len)..(c1 - 1) : ~IsDelim(mem, call', i)
            /\ call'.ret.len > 0 =>
                  /\ c1 = len \/ IsDelim(mem, call', c1)
                  /\ c1 - call'.ret.len = 0 \/ IsDelim(mem, call', c1 - call'.ret.len - 1)
            /\ call'.ret.len = 0 => c1 = len

C22_Tokenize == [][C22_Step]_vars

\* the third string_tokenize("aba", "b", &save): "a" and "a" have been
\* returned, the cursor is at the end and the view has length 0
C22_Witness ==
    /\ call.op = "tokenize"
    /\ Bytes(mem, call.x) = <<97, 98, 97>>
    /\ Bytes(mem, call.y) = <<98>>
    /\ call.e = 3
    /\ call.s = 3
    /\ call.ret.len = 0

\* what a text is as an integer: white space, an optional sign and digits
\* make a numeric prefix, whose value is kind 0 within int, else too large
\* for int, too small for int, or out of the range of long; bytes after the
\* prefix are trailing characters; a text without a numeric prefix is invalid
ParseKind(t) ==
    LET ws  == SpaceRun(t, 0)
        sgn == IF ws < Len(t) /\ t[ws + 1] \in {43, 45} THEN 1 ELSE 0
        nd  == DigitRun(t, ws + sgn)
        mag == Accumulate(t, ws + sgn, nd, 0, LONG_MAX + 2)
        val == IF sgn = 1 /\ t[ws + 1] = 45 THEN 0 - mag ELSE mag
    IN  IF nd = 0 THEN [kind |-> STRTOL_INVALID, val |-> 0]
        ELSE IF ws + sgn + nd < Len(t) THEN [kind |-> STRTOL_EXTRA, val |-> 0]
        ELSE IF val > LONG_MAX \/ val < LONG_MIN THEN [kind |-> STRTOL_RANGE, val |-> 0]
        ELSE IF val > INT_MAX THEN [kind |-> STRTOL_MAX, val |-> 0]
        ELSE IF val < INT_MIN THEN [kind |-> STRTOL_MIN, val |-> 0]
        ELSE [kind |-> STRTOL_SUCCESS, val |-> val]

C23_Step ==
    call'.op = "parse_int" =>
        LET k == ParseKind(Bytes(mem, call'.x)) IN
        /\ call'.ret = k.kind
        /\ call'.found <=> k.kind = STRTOL_SUCCESS
        /\ k.kind = STRTOL_SUCCESS => call'.s = k.val

\* C23: string_parse_int returns 0 and stores the value exactly for a text
\* that is an integer within int (white space and a sign may lead); else it
\* leaves *result unwritten and returns the kind of the cause: invalid for an
\* empty view or one without a numeric prefix, trailing characters after a
\* numeric prefix, range for overflow of long, too large or too small for a
\* value outside int
C23_ParseKinds == [][C23_Step]_vars

\* the part of C23 the code keeps: *result is written exactly when 0 is
\* returned, and for a text with a numeric prefix the returned kind and the
\* stored value are those of the text
C23_PrefixStep ==
    call'.op = "parse_int" =>
        LET k == ParseKind(Bytes(mem, call'.x)) IN
        /\ call'.found <=> call'.ret = 0
        /\ (k.kind # STRTOL_INVALID /\ call'.x.len < SIZEOF_TMP) =>
               /\ call'.ret = k.kind
               /\ k.kind = STRTOL_SUCCESS => call'.s = k.val

C23_NumericPrefix == [][C23_PrefixStep]_vars

\* the first line of the bytes left in a stream: the bytes before the first
\* newline, all of them when there is no newline
FirstLine(rest) ==
    LET nls == {i \in 1..Len(rest) : rest[i] = 10} IN
    IF nls = {} THEN rest
    ELSE SubSeq(rest, 1, (CHOOSE i \in nls : \A j \in nls : i <= j) - 1)

\* the bytes left in the stream after its first line has been read, the
\* newline included
AfterLine(rest) ==
    SubSeq(rest, MIN(Len(FirstLine(rest)) + 1, Len(rest)) + 1, Len(rest))

C24_Step ==
    (/\ IsCall
     /\ call'.op = "getline"
     /\ b.len = 0
     /\ ~Fixed(mem, b))
    => /\ fault' = "none"
       /\ Contents(mem', b') = FirstLine(fp.rest)
       /\ fp'.rest = AfterLine(fp.rest)

\* C24: builder_getline_context on an empty builder that is zero-valued or
\* owns its buffer, whatever its capacity, returns and leaves as contents the
\* bytes of the stream before the first newline (the newline is consumed and
\* not stored), all the bytes left when the stream has no newline, and length
\* 0 when no byte is left
C24_GetlineContents == [][C24_Step]_vars

\* the two builds agree: both processes have ended in the same way, or both
\* calls have returned and the builders have the same len, cap and contents
BuildsAgree(m, bb, f, abb, af) ==
    /\ f = af
    /\ f = "none" => /\ bb.len = abb.len
                     /\ bb.cap = abb.cap
                     /\ Contents(m, bb) = Contents(m, abb)

\* C26: after each call of builder_reserve, builder_append, builder_replace
\* and builder_splice on a builder that started zero-valued, the contents,
\* len and cap are the same whether PMK_REALLOC is realloc or
\* arena_realloc_into on an arena whose buffers growth retires
C26_HookEquivalent == BuildsAgree(mem, b, fault, ab, afault)

\* the part of C26 the code keeps: the two builds agree as long as no
\* builder_replace has wrapped the capacity of the builder
C26_AgreeWhileCapSane ==
    (b.cap <= PTRDIFF_MAX /\ ab.cap <= PTRDIFF_MAX)
        => BuildsAgree(mem, b, fault, ab, afault)
====
